---- MODULE Spec2Model ----
(***************************************************************************)
(* Simple IoT store service (package store): the NATS handlers of the      *)
(* store, the node/edge database they call, upstream propagation and the   *)
(* rule evaluation they start.                                             *)
(*                                                                         *)
(* The handlers (handleNodePoints, handleEdgePoints, handleNode,           *)
(* handleNodeChildren, reply, processRuleNode, processPointsUpstream) are  *)
(* translated from store.go.  The database (Db.nodePoints, Db.edgePoints,  *)
(* Db.nodeEdge, Db.nodeDescendents, Db.edgeUp), the message codecs and the *)
(* rule evaluation (ruleProcessPoints) are modelled from the written       *)
(* specification of the node store and of the rule engine.                 *)
(***************************************************************************)
EXTENDS Integers, Sequences, FiniteSets, TLC

\* ------------------------------------------------------------------ bounds
\* Largest timestamp an external writer puts on a point (0 is Go's zero time).
MaxTime == 2
\* Largest number of points in one Points message.
MaxBatch == 2
\* Most packets the device side writes to the serial port.
MaxPackets == 3
\* Largest point value an external writer sends.
MaxValue == 2
\* Last reading of the clock (time.Now()); the first reading is 1.
MaxNow == 3

\* ---------------------------------------------------------------- universe
\* The root node (a device, as created at first start), a second device and a group.
RootID == "r"
NodeIDs == {"r", "a", "b"}
\* "root" is the sentinel parent of the root node, "none" the parent the store
\* writes for an orphaned device.
ParentIDs == NodeIDs \cup {"root", "none"}
\* The type a node is created with (the nodeType point co-submitted at creation).
NodeTypeOf(id) ==
    CASE id = "r" -> "device"
      [] id = "a" -> "device"
      [] id = "b" -> "group"
      [] id = "rule1" -> "rule"
      [] id \in {"c1", "c2"} -> "condition"
      [] id = "act" -> "action"
      [] id = "actIn" -> "actionInactive"
      [] id \in {"u1", "u2"} -> "user"
      [] id \in {"tw", "sm"} -> "msgService"
      [] OTHER -> ""

\* A rule node with its children: two conditions, an action and an inactive action.
RuleIDs == {"rule1"}
ConditionIDs == {"c1", "c2"}
ActionIDs == {"act"}
ActionInactiveIDs == {"actIn"}

\* Two user nodes; u1 is reached by email, u2 by phone.
UserIDs == {"u1", "u2"}
UserEmail(u) == IF u = "u1" THEN "u1@example.com" ELSE ""
UserPhone(u) == IF u = "u2" THEN "+15550100" ELSE ""
UserPass(u) == IF u = "u1" THEN "pw1" ELSE "pw2"

\* Two message service nodes: a twilio service and an smtp service.
ServiceIDs == {"tw", "sm"}
PointValueTwilio == "twilio"
PointValueSMTP == "smtp"
SvcService(s) == IF s = "tw" THEN PointValueTwilio ELSE PointValueSMTP

Times == 1..MaxTime
Values == 1..MaxValue
\* The slot (type, key) of the node points written here: ("value", "").
PointTypeValue == "value"
\* The edge point type that deletes a relation.
PointTypeTombstone == "tombstone"
\* A slot that holds no point yet reads as the zero point (zero time).
NoPoint == [time |-> 0, value |-> 0]
\* The slots of a node record, and of an edge record, that holds no point yet.
NoNodePoints == [ty \in {PointTypeValue} |-> NoPoint]
NoEdgePoints == [ty \in {PointTypeTombstone} |-> NoPoint]
NodePoints == [type : {PointTypeValue}, time : Times, value : Values]
EdgePoints == [type : {PointTypeTombstone}, time : Times, value : {0, 1}]

\* Sequences over S of length 1..n.
SeqsUpTo(S, n) == UNION {[1..k -> S] : k \in 1..n}

ErrNil == "nil"
ErrDecodeNode == "error decoding node points subject"
ErrDecodeEdge == "error decoding edge points subject"
ErrStoreIO == "store io error"
ErrCycle == "cycle detected"
ErrDocumentNotFound == "document not found"

VARIABLES
    nodes,      \* Db: ids of the node records
    points,     \* Db: points[id][type] is the latest point of the slot, for id in nodes
    edges,      \* Db: the edge records, <<parent, child>>
    edgePts,    \* Db: edgePts[e][type] is the latest point of the slot, for e in edges
    lock,       \* Store.nodeUpdateLock: "" or the handler that holds it
    pc,         \* pc[h]: where handler h (a subscription's goroutine) stands
    cur,        \* the message the handler inside the lock decoded, and how it ended
    out,        \* what that handler published on the message's reply subject
    upstream,   \* the currentNodeIDs processPointsUpstream ran for, for that message
    bus,        \* edge point messages the store itself published, not yet delivered
    resp,       \* the last response of handleNode / handleNodeChildren
    firstAt,    \* history: firstAt[id][t] is the first value written to id with time t
    acked,      \* history: acked[id] is the greatest time of a point write that was ACKed
    now,        \* the clock the rule engine reads
    rules,      \* the rules as data.NodeToRule reads them: activation of the rules
                \* and conditions, activeStart, lastSent, and what last fired
    ruleFresh,  \* history: no edge was written since the last rule evaluation
    notified,   \* the last notification handled and the messages published for it
    auth,       \* the last auth.user request handled and its reply
    serial,     \* the serial client: its port, the packet in hand, what it applied
    messaged,   \* the last message handled, the services found and the gateways used
    sched,      \* the loop of Store.Start: the schedule sweeper and the stop channel
    upd,        \* Store.lock, Store.updates and the software updates under way
    startup,    \* the head of Store.Start (subscriptions, metrics, started) and
                \* the callers of WaitStart
    page        \* front end: the Model of the nodes page (Components.NodeUser)

dbVars == <<nodes, points, edges, edgePts>>
ruleVars == <<now, rules, ruleFresh>>
moreVars == <<messaged, sched, upd, startup, page>>
runVars == <<notified, auth, serial, messaged, sched, upd, page>>
svcVars == <<notified, auth, serial, messaged, sched, upd, startup, page>>
storeVars == <<nodes, points, edges, edgePts, lock, pc, cur, out, upstream, bus, resp,
               firstAt, acked>>
vars == <<nodes, points, edges, edgePts, lock, pc, cur, out, upstream, bus, resp,
          firstAt, acked, now, rules, ruleFresh, notified, auth, serial, messaged,
          sched, upd, startup, page>>


\* ------------------------------------------------------------------ the Db
\* One point into a slot: written iff its time is strictly greater than the stored
\* point's time.
MergePoint(stored, p) ==
    IF p.time > stored.time THEN [time |-> p.time, value |-> p.value] ELSE stored

\* A batch into the slots of one node (or edge), point by point, in order.
RECURSIVE MergePoints(_, _)
MergePoints(slots, batch) ==
    IF batch = <<>> THEN slots
    ELSE LET p == Head(batch)
         IN MergePoints([slots EXCEPT ![p.type] = MergePoint(@, p)], Tail(batch))

\* Mutant of DbNodePoints: the first write to an absent node creates the node
\* record and drops the points.
DbNodePointsCreateOnly(ns, ps, id, batch, fail) ==
    IF fail THEN [err |-> ErrStoreIO, nodes |-> ns, points |-> ps]
    ELSE IF id \notin ns
    THEN [err |-> ErrNil, nodes |-> ns \cup {id}, points |-> (id :> NoNodePoints) @@ ps]
    ELSE [err |-> ErrNil,
          nodes |-> ns,
          points |-> [ps EXCEPT ![id] = MergePoints(@, batch)]]

\* Db.nodePoints: merges the points into node id, creating the node record when it
\* is absent. fail: the underlying key-value store fails; the call is atomic.
DbNodePoints(ns, ps, id, batch, fail) ==
    IF fail THEN [err |-> ErrStoreIO, nodes |-> ns, points |-> ps]
    ELSE [err |-> ErrNil,
          nodes |-> ns \cup {id},
          points |-> IF id \in ns THEN [ps EXCEPT ![id] = MergePoints(@, batch)]
                     ELSE (id :> MergePoints(NoNodePoints, batch)) @@ ps]

\* Every id reachable downward from the ids of S through edge records (S included).
RECURSIVE Downstream(_, _)
Downstream(es, S) ==
    LET next == S \cup {e[2] : e \in {x \in es : x[1] \in S}}
    IN IF next = S THEN S ELSE Downstream(es, next)

\* The cycle guard of an edge write: the proposed parent lies downstream of the child.
WouldCycle(es, nodeID, parentID) == parentID \in Downstream(es, {nodeID})

\* Mutant of DbEdgePoints: no cycle guard.
DbEdgePointsNoGuard(es, ep, nodeID, parentID, batch, fail) ==
    IF fail THEN [err |-> ErrStoreIO, edges |-> es, edgePts |-> ep]
    ELSE [err |-> ErrNil,
          edges |-> es \cup {<<parentID, nodeID>>},
          edgePts |-> IF <<parentID, nodeID>> \in es
                      THEN [ep EXCEPT ![<<parentID, nodeID>>] = MergePoints(@, batch)]
                      ELSE (<<parentID, nodeID>> :> MergePoints(NoEdgePoints, batch))
                           @@ ep]

\* Db.edgePoints: merges the points into edge parentID -> nodeID, creating the edge
\* record when first written; refuses an edge that would close a cycle.
DbEdgePoints(es, ep, nodeID, parentID, batch, fail) ==
    IF fail THEN [err |-> ErrStoreIO, edges |-> es, edgePts |-> ep]
    ELSE IF WouldCycle(es, nodeID, parentID)
    THEN [err |-> ErrCycle, edges |-> es, edgePts |-> ep]
    ELSE [err |-> ErrNil,
          edges |-> es \cup {<<parentID, nodeID>>},
          edgePts |-> IF <<parentID, nodeID>> \in es
                      THEN [ep EXCEPT ![<<parentID, nodeID>>] = MergePoints(@, batch)]
                      ELSE (<<parentID, nodeID>> :> MergePoints(NoEdgePoints, batch))
                           @@ ep]

\* Edge.IsTombstone: the edge's tombstone point is non-zero.
IsTombstone(ep, e) == e \in DOMAIN ep /\ ep[e][PointTypeTombstone].value # 0

\* A node as seen through one parent edge (data.NodeEdge).
NodeEdge(ps, ep, id, parent) ==
    [id |-> id, type |-> NodeTypeOf(id), parent |-> parent,
     points |-> ps[id],
     tombstone |-> IsTombstone(ep, <<parent, id>>)]

\* Db.edgeUp: the parent edges of a node.
DbEdgeUp(es, ep, id, includeDel) ==
    {e \in es : e[2] = id /\ (includeDel \/ ~IsTombstone(ep, e))}

\* Db.nodeEdge: the node through the named parent edge, or with parent "all" once
\* per parent edge (deleted edges included); a node without any parent edge is
\* returned once, with an empty parent.
DbNodeEdge(ns, ps, es, ep, id, parent) ==
    IF id \notin ns THEN [err |-> ErrDocumentNotFound, nodes |-> {}]
    ELSE IF parent = "all"
    THEN LET ups == DbEdgeUp(es, ep, id, TRUE)
         IN [err |-> ErrNil,
             nodes |-> IF ups = {} THEN {NodeEdge(ps, ep, id, "")}
                       ELSE {NodeEdge(ps, ep, id, e[1]) : e \in ups}]
    ELSE IF <<parent, id>> \in es
    THEN [err |-> ErrNil, nodes |-> {NodeEdge(ps, ep, id, parent)}]
    ELSE [err |-> ErrDocumentNotFound, nodes |-> {}]

\* Db.nodeDescendents: the children of id (all descendants when recursive), of the
\* given type when typ is not empty, without the deleted ones unless includeDel.
RECURSIVE DescendEdges(_, _, _, _, _)
DescendEdges(es, ep, frontier, visited, includeDel) ==
    LET down == {e \in es : e[1] \in frontier /\ e[2] \notin visited
                            /\ (includeDel \/ ~IsTombstone(ep, e))}
    IN IF down = {} THEN {}
       ELSE down \cup DescendEdges(es, ep, {e[2] : e \in down},
                                   visited \cup {e[2] : e \in down}, includeDel)

DbNodeDescendents(ns, ps, es, ep, id, typ, recursive, includeDel) ==
    LET direct == {e \in es : e[1] = id /\ (includeDel \/ ~IsTombstone(ep, e))}
        found == IF recursive THEN DescendEdges(es, ep, {id}, {id}, includeDel)
                 ELSE direct
    IN {NodeEdge(ps, ep, e[2], e[1]) :
            e \in {x \in found : x[2] \in ns /\ (typ = "" \/ NodeTypeOf(x[2]) = typ)}}

\* ------------------------------------------------------------ the messages
\* A message on node.<node>.points; valid: its subject and payload decode.
NodeMsg(node, pts, rsub, valid) ==
    [node |-> node, parent |-> "", points |-> pts, reply |-> rsub, valid |-> valid]
\* A message on node.<node>.<parent>.points. (The subject of handleEdgePoints
\* carries the child first: DecodeEdgePointsMsg returns nodeID, parentID.)
EdgeMsg(node, parent, pts, rsub, valid) ==
    [node |-> node, parent |-> parent, points |-> pts, reply |-> rsub, valid |-> valid]

\* client.DecodeNodePointsMsg / client.DecodeEdgePointsMsg.
DecodeNodePointsMsg(msg) ==
    IF msg.valid THEN [err |-> ErrNil, nodeID |-> msg.node, points |-> msg.points]
    ELSE [err |-> ErrDecodeNode, nodeID |-> "", points |-> <<>>]
DecodeEdgePointsMsg(msg) ==
    IF msg.valid
    THEN [err |-> ErrNil, nodeID |-> msg.node, parentID |-> msg.parent,
          points |-> msg.points]
    ELSE [err |-> ErrDecodeEdge, nodeID |-> "", parentID |-> "", points |-> <<>>]

\* client.SendEdgePoint(nc, nodeID, parentID, Point{Type: tombstone, Value: 0}, false):
\* published without reply subject; the point carries Go's zero time.
SendEdgePoint(nodeID, parentID) ==
    EdgeMsg(nodeID, parentID,
            <<[type |-> PointTypeTombstone, time |-> 0, value |-> 0]>>, "", TRUE)

\* ------------------------------------------------------------ Store.reply
\* Nothing when the message has no reply subject; else one publish: the empty
\* string for a nil error, the error's text otherwise.
reply(subject, err) ==
    IF subject = "" THEN <<>>
    ELSE <<IF err # ErrNil THEN err ELSE "">>

\* ------------------------------------------------------- the rule engine
\* The configuration points of the condition nodes: c1 looks at the value of node
\* "a", c2 at the value of node "b"; both are met by a number above 1, c2 only once
\* it has been met for two ticks of the clock.
CondNodeID(c) == IF c = "c1" THEN "a" ELSE "b"
CondPointType(c) == PointTypeValue
CondValueNumber(c) == IF c \in ConditionIDs THEN 1 ELSE 0
CondMinActive(c) == IF c = "c2" THEN 2 ELSE 0
\* The repeatPeriod point of the action nodes.
ActionRepeatPeriod(x) == IF x = "act" THEN 2 ELSE 0

\* The rules before any evaluation: nothing active, no activeStart, nothing sent.
\* ran, fired and reset tell what the last evaluation did: the actions it handed
\* to ruleRunActions, those of them that published, and the actions it handed to
\* ruleRunInactiveActions.
NoRules ==
    [active |-> [r \in RuleIDs |-> FALSE],
     condActive |-> [c \in ConditionIDs |-> FALSE],
     condStart |-> [c \in ConditionIDs |-> 0],
     lastSent |-> [x \in ActionIDs \cup ActionInactiveIDs |-> 0],
     ran |-> {}, fired |-> {}, reset |-> {}]

\* One condition on one point read at time t; st is [active, start]. A point the
\* qualifiers do not select leaves the condition as it is; a point that meets the
\* predicate sets activeStart if it is clear, and the condition is active once
\* minActive has passed since; a point that fails it clears both.
CondSelects(c, sourceNodeID, p) ==
    CondNodeID(c) \in {"", sourceNodeID} /\ p.type = CondPointType(c)
CondMeets(c, p) == p.value > CondValueNumber(c)

\* Mutant of conditionProcessPoint: the condition is active as soon as a point
\* meets the predicate.
conditionProcessPointNoSpan(c, st, sourceNodeID, p, t) ==
    IF ~CondSelects(c, sourceNodeID, p) THEN st
    ELSE IF CondMeets(c, p)
    THEN LET start == IF st.start = 0 THEN t ELSE st.start
         IN [active |-> TRUE, start |-> start]
    ELSE [active |-> FALSE, start |-> 0]

conditionProcessPoint(c, st, sourceNodeID, p, t) ==
    IF ~CondSelects(c, sourceNodeID, p) THEN st
    ELSE IF CondMeets(c, p)
    THEN LET start == IF st.start = 0 THEN t ELSE st.start
         IN [active |-> t - start >= CondMinActive(c), start |-> start]
    ELSE [active |-> FALSE, start |-> 0]

RECURSIVE conditionProcessPoints(_, _, _, _, _)
conditionProcessPoints(c, st, sourceNodeID, batch, t) ==
    IF batch = <<>> THEN st
    ELSE conditionProcessPoints(c, conditionProcessPoint(c, st, sourceNodeID,
                                                         Head(batch), t),
                                sourceNodeID, Tail(batch), t)

\* ruleProcessPoints: the conditions of the rule (conds) take the points, the rule
\* is active iff all of them are active, and changed tells whether that differs
\* from the rule's stored active point, which is then updated.
ruleProcessPoints(rs, ruleID, conds, sourceNodeID, batch, t) ==
    LET cs == [c \in ConditionIDs |->
                  LET st == [active |-> rs.condActive[c], start |-> rs.condStart[c]]
                  IN IF c \in conds
                     THEN conditionProcessPoints(c, st, sourceNodeID, batch, t)
                     ELSE st]
        active == \A c \in conds : cs[c].active
    IN [active |-> active,
        changed |-> active # rs.active[ruleID],
        rules |-> [rs EXCEPT !.active[ruleID] = active,
                             !.condActive = [c \in ConditionIDs |-> cs[c].active],
                             !.condStart = [c \in ConditionIDs |-> cs[c].start]]]

\* ruleRunActions: every action whose repeatPeriod has passed since lastSent (or
\* that was never sent) publishes its point and stamps lastSent.
ruleRunActions(rs, acts, t) ==
    LET due == {x \in acts : rs.lastSent[x] = 0
                             \/ t - rs.lastSent[x] >= ActionRepeatPeriod(x)}
    IN [rs EXCEPT !.lastSent = [x \in DOMAIN @ |-> IF x \in due THEN t ELSE @[x]],
                  !.ran = @ \cup acts,
                  !.fired = @ \cup due]

\* ruleRunInactiveActions: the actions are reset, their lastSent zeroed.
ruleRunInactiveActions(rs, acts) ==
    [rs EXCEPT !.lastSent = [x \in DOMAIN @ |-> IF x \in acts THEN 0 ELSE @[x]],
               !.reset = @ \cup acts]

\* The ids of the live children of ruleID of the given type, as processRuleNode
\* asks the Db for them.
ruleChildren(ns, ps, es, ep, ruleID, typ, includeDel) ==
    {n.id : n \in DbNodeDescendents(ns, ps, es, ep, ruleID, typ, FALSE, includeDel)}

\* Mutant of processRuleNode: the deleted condition nodes are evaluated as well.
processRuleNodeWithDeleted(ns, ps, es, ep, rs, ruleID, sourceNodeID, batch, t) ==
    LET conds == ruleChildren(ns, ps, es, ep, ruleID, "condition", TRUE)
        acts == ruleChildren(ns, ps, es, ep, ruleID, "action", FALSE)
        actsIn == ruleChildren(ns, ps, es, ep, ruleID, "actionInactive", FALSE)
        p == ruleProcessPoints([rs EXCEPT !.ran = {}, !.fired = {}, !.reset = {}],
                               ruleID, conds, sourceNodeID, batch, t)
    IN IF p.active /\ p.changed
       THEN ruleRunInactiveActions(ruleRunActions(p.rules, acts, t), actsIn)
       ELSE IF ~p.active /\ p.changed
       THEN ruleRunInactiveActions(ruleRunActions(p.rules, actsIn, t), acts)
       ELSE p.rules

\* Mutant of processRuleNode: the actions run in every evaluation that finds the
\* rule active, changed or not.
processRuleNodeLevel(ns, ps, es, ep, rs, ruleID, sourceNodeID, batch, t) ==
    LET conds == ruleChildren(ns, ps, es, ep, ruleID, "condition", FALSE)
        acts == ruleChildren(ns, ps, es, ep, ruleID, "action", FALSE)
        actsIn == ruleChildren(ns, ps, es, ep, ruleID, "actionInactive", FALSE)
        p == ruleProcessPoints([rs EXCEPT !.ran = {}, !.fired = {}, !.reset = {}],
                               ruleID, conds, sourceNodeID, batch, t)
    IN IF p.active
       THEN ruleRunInactiveActions(ruleRunActions(p.rules, acts, t), actsIn)
       ELSE IF ~p.active /\ p.changed
       THEN ruleRunInactiveActions(ruleRunActions(p.rules, actsIn, t), acts)
       ELSE p.rules

\* Mutant of processRuleNode: the change to inactive runs and resets the same sets
\* as the change to active.
processRuleNodeSameSets(ns, ps, es, ep, rs, ruleID, sourceNodeID, batch, t) ==
    LET conds == ruleChildren(ns, ps, es, ep, ruleID, "condition", FALSE)
        acts == ruleChildren(ns, ps, es, ep, ruleID, "action", FALSE)
        actsIn == ruleChildren(ns, ps, es, ep, ruleID, "actionInactive", FALSE)
        p == ruleProcessPoints([rs EXCEPT !.ran = {}, !.fired = {}, !.reset = {}],
                               ruleID, conds, sourceNodeID, batch, t)
    IN IF p.active /\ p.changed
       THEN ruleRunInactiveActions(ruleRunActions(p.rules, acts, t), actsIn)
       ELSE IF ~p.active /\ p.changed
       THEN ruleRunInactiveActions(ruleRunActions(p.rules, acts, t), actsIn)
       ELSE p.rules

\* Mutant of processRuleNode: on a change the actions about to run are reset
\* first.
processRuleNodeResetFirst(ns, ps, es, ep, rs, ruleID, sourceNodeID, batch, t) ==
    LET conds == ruleChildren(ns, ps, es, ep, ruleID, "condition", FALSE)
        acts == ruleChildren(ns, ps, es, ep, ruleID, "action", FALSE)
        actsIn == ruleChildren(ns, ps, es, ep, ruleID, "actionInactive", FALSE)
        p == ruleProcessPoints([rs EXCEPT !.ran = {}, !.fired = {}, !.reset = {}],
                               ruleID, conds, sourceNodeID, batch, t)
    IN IF p.active /\ p.changed
       THEN ruleRunInactiveActions(
                ruleRunActions(ruleRunInactiveActions(p.rules, acts), acts, t),
                actsIn)
       ELSE IF ~p.active /\ p.changed
       THEN ruleRunInactiveActions(
                ruleRunActions(ruleRunInactiveActions(p.rules, actsIn), actsIn, t),
                acts)
       ELSE p.rules

\* Store.processRuleNode: the rule is built from its live condition, action and
\* actionInactive children and takes the points; on a change to active the actions
\* run and the inactive actions are reset, on a change to inactive the reverse.
processRuleNode(ns, ps, es, ep, rs, ruleID, sourceNodeID, batch, t) ==
    LET conds == ruleChildren(ns, ps, es, ep, ruleID, "condition", FALSE)
        acts == ruleChildren(ns, ps, es, ep, ruleID, "action", FALSE)
        actsIn == ruleChildren(ns, ps, es, ep, ruleID, "actionInactive", FALSE)
        p == ruleProcessPoints([rs EXCEPT !.ran = {}, !.fired = {}, !.reset = {}],
                               ruleID, conds, sourceNodeID, batch, t)
    IN IF p.active /\ p.changed
       THEN ruleRunInactiveActions(ruleRunActions(p.rules, acts, t), actsIn)
       ELSE IF ~p.active /\ p.changed
       THEN ruleRunInactiveActions(ruleRunActions(p.rules, actsIn, t), acts)
       ELSE p.rules

\* The loop over ruleNodes in processPointsUpstream.
RECURSIVE processRuleNodes(_, _, _, _, _, _, _, _, _)
processRuleNodes(ns, ps, es, ep, rs, ruleNodes, sourceNodeID, batch, t) ==
    IF ruleNodes = {} THEN rs
    ELSE LET ruleID == CHOOSE x \in ruleNodes : TRUE
         IN processRuleNodes(ns, ps, es, ep,
                             processRuleNode(ns, ps, es, ep, rs, ruleID,
                                             sourceNodeID, batch, t),
                             ruleNodes \ {ruleID}, sourceNodeID, batch, t)

\* ------------------------------------------------ Store.processPointsUpstream
\* How many times processPointsUpstream runs with currentNodeID = target when it
\* is started at current: once for current itself, then once more through every
\* parent edge (deleted ones included), recursively. The recursion carries no
\* visited set; depth bounds it here by the longest path of an acyclic store.
RECURSIVE upstreamRuns(_, _, _, _, _)
RECURSIVE upstreamRunsOver(_, _, _, _, _)
\* Mutant of upstreamRuns: the deleted parent edges are left out.
upstreamRunsLive(es, ep, current, target, depth) ==
    IF depth = 0 THEN 0
    ELSE (IF current = target THEN 1 ELSE 0)
         + upstreamRunsOver(es, ep, DbEdgeUp(es, ep, current, FALSE), target, depth)

upstreamRuns(es, ep, current, target, depth) ==
    IF depth = 0 THEN 0
    ELSE (IF current = target THEN 1 ELSE 0)
         + upstreamRunsOver(es, ep, DbEdgeUp(es, ep, current, TRUE), target, depth)
upstreamRunsOver(es, ep, ups, target, depth) ==
    IF ups = {} THEN 0
    ELSE LET e == CHOOSE x \in ups : TRUE
         IN upstreamRuns(es, ep, e[1], target, depth - 1)
            + upstreamRunsOver(es, ep, ups \ {e}, target, depth)

\* The orphan check made when currentNodeID = nodeID: the edge point messages of
\* which the store sends one (edges[0] is whichever parent edge the Db lists first);
\* empty when the node is no device or has a live parent edge.
orphanRepairs(ns, es, ep, nodeID) ==
    LET ups == DbEdgeUp(es, ep, nodeID, TRUE)
        nodeType == IF nodeID \in ns THEN NodeTypeOf(nodeID) ELSE ""
        hasUpstream == \E e \in ups : ~IsTombstone(ep, e)
    IN IF nodeType # "device" \/ hasUpstream THEN {}
       ELSE IF ups = {} THEN {SendEdgePoint(nodeID, "none")}
       ELSE {SendEdgePoint(e[2], e[1]) : e \in ups}

\* The rule nodes processPointsUpstream evaluates on its way up: the live rule
\* children of every currentNodeID it runs for.
upstreamRuleNodes(ns, ps, es, ep, runs) ==
    UNION {ruleChildren(ns, ps, es, ep, id, "rule", FALSE) :
               id \in {x \in DOMAIN runs : runs[x] > 0}}

\* Mutant of processPointsUpstream: no recursion over the parent edges.
processPointsUpstreamNoRecursion(ns, ps, es, ep, rs, currentNodeID, nodeID, batch, t) ==
    LET runs == [id \in ParentIDs |-> IF id = currentNodeID THEN 1 ELSE 0]
        ruleNodes == upstreamRuleNodes(ns, ps, es, ep, runs)
    IN [runs |-> runs,
        ruleNodes |-> ruleNodes,
        rules |-> processRuleNodes(ns, ps, es, ep, rs, ruleNodes, nodeID, batch, t),
        repairs |-> IF currentNodeID = nodeID THEN orphanRepairs(ns, es, ep, nodeID)
                    ELSE {}]

processPointsUpstream(ns, ps, es, ep, rs, currentNodeID, nodeID, batch, t) ==
    LET runs == [id \in ParentIDs |->
                    upstreamRuns(es, ep, currentNodeID, id, Cardinality(ParentIDs))]
        ruleNodes == upstreamRuleNodes(ns, ps, es, ep, runs)
    IN [runs |-> runs,
        ruleNodes |-> ruleNodes,
        rules |-> processRuleNodes(ns, ps, es, ep, rs, ruleNodes, nodeID, batch, t),
        repairs |-> IF currentNodeID = nodeID THEN orphanRepairs(ns, es, ep, nodeID)
                    ELSE {}]

NoRuns == [id \in ParentIDs |-> 0]

\* What can go wrong on the way up: nothing; a read of the Db (nodeDescendents), the
\* one error processPointsUpstream returns; the evaluation of a rule or the
\* dispatch of an action, which processRuleNode logs; the write to a sink, which the
\* loop over the db nodes logs.
ErrUpDb == "error reading rule nodes"
ErrUpRule == "error processing rule point"
ErrUpAction == "error running rule actions"
ErrUpSink == "error writing point to influx"
UpErrs == {ErrNil, ErrUpDb, ErrUpRule, ErrUpAction, ErrUpSink}

\* What processPointsUpstream returns to handleNodePoints: the error of the read,
\* nil after an error it has logged itself.
upstreamErr(upErr) == IF upErr = ErrUpDb THEN ErrUpDb ELSE ErrNil

\* processPointsUpstream(nodeID, nodeID, ...) as handleNodePoints calls it, with the
\* failure upErr on the way. A failed read of the rule nodes returns at once: no
\* rule runs, no orphan check, no recursion. A failed evaluation or dispatch is
\* logged and leaves the state of the rules as it was; a failed sink write is
\* logged.
processPointsUpstreamErr(ns, ps, es, ep, rs, nodeID, batch, t, upErr) ==
    IF upErr = ErrUpDb
    THEN [runs |-> [id \in ParentIDs |-> IF id = nodeID THEN 1 ELSE 0],
          ruleNodes |-> {}, rules |-> rs, repairs |-> {}]
    ELSE [processPointsUpstream(ns, ps, es, ep, rs, nodeID, nodeID, batch, t)
             EXCEPT !.rules = IF upErr \in {ErrUpRule, ErrUpAction} THEN rs ELSE @]

\* ------------------------------------------------- Store.handleNodePoints
\* Mutant of handleNodePoints: only the first point of the message is written.
handleNodePointsFirstOnly(msg, fail, upErr) ==
    LET dec == DecodeNodePointsMsg(msg)
        first == IF dec.points = <<>> THEN <<>> ELSE <<Head(dec.points)>>
        w == DbNodePoints(nodes, points, dec.nodeID, first, fail)
        up == processPointsUpstreamErr(w.nodes, w.points, edges, edgePts, rules,
                                       dec.nodeID, dec.points, now, upErr)
    IN IF dec.err # ErrNil
       THEN [nodes |-> nodes, points |-> points, result |-> "decode",
             steps |-> <<"decode", "reply">>,
             out |-> reply(msg.reply, ErrDecodeNode),
             runs |-> NoRuns, ruleNodes |-> {}, rules |-> rules, repairs |-> {},
             logged |-> {}]
       ELSE IF w.err # ErrNil
       THEN [nodes |-> nodes, points |-> points, result |-> "db",
             steps |-> <<"decode", "db", "reply">>,
             out |-> reply(msg.reply, w.err),
             runs |-> NoRuns, ruleNodes |-> {}, rules |-> rules, repairs |-> {},
             logged |-> {}]
       ELSE [nodes |-> w.nodes, points |-> w.points, result |-> "ok",
             steps |-> <<"decode", "db", "upstream", "reply">>,
             out |-> reply(msg.reply, ErrNil),
             runs |-> up.runs, ruleNodes |-> up.ruleNodes, rules |-> up.rules,
             repairs |-> up.repairs,
             logged |-> {upErr} \ {ErrNil}]

\* Mutant of handleNodePoints: no return after the reply of a failed write, so the
\* final reply(msg.Reply, nil) is sent as well.
handleNodePointsNoReturn(msg, fail, upErr) ==
    LET dec == DecodeNodePointsMsg(msg)
        w == DbNodePoints(nodes, points, dec.nodeID, dec.points, fail)
        up == processPointsUpstreamErr(w.nodes, w.points, edges, edgePts, rules,
                                       dec.nodeID, dec.points, now, upErr)
    IN IF dec.err # ErrNil
       THEN [nodes |-> nodes, points |-> points, result |-> "decode",
             steps |-> <<"decode", "reply">>,
             out |-> reply(msg.reply, ErrDecodeNode),
             runs |-> NoRuns, ruleNodes |-> {}, rules |-> rules, repairs |-> {},
             logged |-> {}]
       ELSE IF w.err # ErrNil
       THEN [nodes |-> nodes, points |-> points, result |-> "db",
             steps |-> <<"decode", "db", "reply">>,
             out |-> reply(msg.reply, w.err) \o reply(msg.reply, ErrNil),
             runs |-> up.runs, ruleNodes |-> up.ruleNodes, rules |-> up.rules,
             repairs |-> up.repairs,
             logged |-> {upErr} \ {ErrNil}]
       ELSE [nodes |-> w.nodes, points |-> w.points, result |-> "ok",
             steps |-> <<"decode", "db", "upstream", "reply">>,
             out |-> reply(msg.reply, ErrNil),
             runs |-> up.runs, ruleNodes |-> up.ruleNodes, rules |-> up.rules,
             repairs |-> up.repairs,
             logged |-> {upErr} \ {ErrNil}]

\* Mutant of handleNodePoints: the error processPointsUpstream returns is replied.
handleNodePointsReplyUpErr(msg, fail, upErr) ==
    LET dec == DecodeNodePointsMsg(msg)
        w == DbNodePoints(nodes, points, dec.nodeID, dec.points, fail)
        up == processPointsUpstreamErr(w.nodes, w.points, edges, edgePts, rules,
                                       dec.nodeID, dec.points, now, upErr)
    IN IF dec.err # ErrNil
       THEN [nodes |-> nodes, points |-> points, result |-> "decode",
             steps |-> <<"decode", "reply">>,
             out |-> reply(msg.reply, ErrDecodeNode),
             runs |-> NoRuns, ruleNodes |-> {}, rules |-> rules, repairs |-> {},
             logged |-> {}]
       ELSE IF w.err # ErrNil
       THEN [nodes |-> nodes, points |-> points, result |-> "db",
             steps |-> <<"decode", "db", "reply">>,
             out |-> reply(msg.reply, w.err),
             runs |-> NoRuns, ruleNodes |-> {}, rules |-> rules, repairs |-> {},
             logged |-> {}]
       ELSE [nodes |-> w.nodes, points |-> w.points, result |-> "ok",
             steps |-> <<"decode", "db", "upstream", "reply">>,
             out |-> reply(msg.reply, upstreamErr(upErr)),
             runs |-> up.runs, ruleNodes |-> up.ruleNodes, rules |-> up.rules,
             repairs |-> up.repairs,
             logged |-> {upErr} \ {ErrNil}]


\* The handler's body between Lock and the deferred Unlock: what it leaves in the
\* Db, what it publishes on the reply subject, the upstream runs and the repair
\* messages it may send. result: "decode", "db" (the write failed) or "ok";
\* steps: what the handler did, in the order of its statements; logged: the
\* errors of the way up, which go to the log only.
handleNodePoints(msg, fail, upErr) ==
    LET dec == DecodeNodePointsMsg(msg)
        w == DbNodePoints(nodes, points, dec.nodeID, dec.points, fail)
        up == processPointsUpstreamErr(w.nodes, w.points, edges, edgePts, rules,
                                       dec.nodeID, dec.points, now, upErr)
    IN IF dec.err # ErrNil
       THEN [nodes |-> nodes, points |-> points, result |-> "decode",
             steps |-> <<"decode", "reply">>,
             out |-> reply(msg.reply, ErrDecodeNode),
             runs |-> NoRuns, ruleNodes |-> {}, rules |-> rules, repairs |-> {},
             logged |-> {}]
       ELSE IF w.err # ErrNil
       THEN [nodes |-> nodes, points |-> points, result |-> "db",
             steps |-> <<"decode", "db", "reply">>,
             out |-> reply(msg.reply, w.err),
             runs |-> NoRuns, ruleNodes |-> {}, rules |-> rules, repairs |-> {},
             logged |-> {}]
       ELSE [nodes |-> w.nodes, points |-> w.points, result |-> "ok",
             steps |-> <<"decode", "db", "upstream", "reply">>,
             out |-> reply(msg.reply, ErrNil),
             runs |-> up.runs, ruleNodes |-> up.ruleNodes, rules |-> up.rules,
             repairs |-> up.repairs,
             logged |-> {upErr} \ {ErrNil}]

\* ------------------------------------------------- Store.handleEdgePoints
\* Mutant of handleEdgePoints: the error of a failed write is not replied, only the
\* final reply(msg.Reply, nil) is sent.
handleEdgePointsAckOnly(msg, fail) ==
    LET dec == DecodeEdgePointsMsg(msg)
        w == DbEdgePoints(edges, edgePts, dec.nodeID, dec.parentID, dec.points, fail)
    IN IF dec.err # ErrNil
       THEN [edges |-> edges, edgePts |-> edgePts, result |-> "decode",
             steps |-> <<"decode", "reply">>,
             out |-> reply(msg.reply, ErrDecodeEdge)]
       ELSE IF w.err # ErrNil
       THEN [edges |-> edges, edgePts |-> edgePts, result |-> "db",
             steps |-> <<"decode", "db", "reply", "reply">>,
             out |-> reply(msg.reply, ErrNil)]
       ELSE [edges |-> w.edges, edgePts |-> w.edgePts, result |-> "ok",
             steps |-> <<"decode", "db", "reply">>,
             out |-> reply(msg.reply, ErrNil)]

\* Mutant of handleEdgePoints: no return after the reply of a decoding error, so
\* the zero nodeID, parentID and points go on to the Db and to the later replies.
handleEdgePointsNoDecodeReturn(msg, fail) ==
    LET dec == DecodeEdgePointsMsg(msg)
        w == DbEdgePoints(edges, edgePts, dec.nodeID, dec.parentID, dec.points, fail)
        first == IF dec.err # ErrNil THEN reply(msg.reply, ErrDecodeEdge) ELSE <<>>
    IN IF w.err # ErrNil
       THEN [edges |-> edges, edgePts |-> edgePts, result |-> "db",
             steps |-> <<"decode", "db", "reply", "reply">>,
             out |-> first \o reply(msg.reply, w.err) \o reply(msg.reply, ErrNil)]
       ELSE [edges |-> w.edges, edgePts |-> w.edgePts, result |-> "ok",
             steps |-> <<"decode", "db", "reply">>,
             out |-> first \o reply(msg.reply, ErrNil)]

\* After a failed write the handler replies with the error and, having no return
\* there, goes on to the final reply(msg.Reply, nil).
handleEdgePoints(msg, fail) ==
    LET dec == DecodeEdgePointsMsg(msg)
        w == DbEdgePoints(edges, edgePts, dec.nodeID, dec.parentID, dec.points, fail)
    IN IF dec.err # ErrNil
       THEN [edges |-> edges, edgePts |-> edgePts, result |-> "decode",
             steps |-> <<"decode", "reply">>,
             out |-> reply(msg.reply, ErrDecodeEdge)]
       ELSE IF w.err # ErrNil
       THEN [edges |-> edges, edgePts |-> edgePts, result |-> "db",
             steps |-> <<"decode", "db", "reply", "reply">>,
             out |-> reply(msg.reply, w.err) \o reply(msg.reply, ErrNil)]
       ELSE [edges |-> w.edges, edgePts |-> w.edgePts, result |-> "ok",
             steps |-> <<"decode", "db", "reply">>,
             out |-> reply(msg.reply, ErrNil)]

\* ------------------------------------------------------ Store.handleNode
\* Mutant of handleNode: the deleted entries are not removed.
handleNodeKeepDeleted(nodeID, parent) ==
    LET r == DbNodeEdge(nodes, points, edges, edgePts, nodeID, parent)
    IN [nodes |-> r.nodes, error |-> IF r.err # ErrNil THEN r.err ELSE ""]

\* node.<id> with the parent in the payload; with parent "all" the deleted
\* entries are removed from the answer.
handleNode(nodeID, parent) ==
    LET r == DbNodeEdge(nodes, points, edges, edgePts, nodeID, parent)
        nodesRet == IF parent = "all" THEN {n \in r.nodes : ~n.tombstone}
                    ELSE r.nodes
    IN [nodes |-> nodesRet, error |-> IF r.err # ErrNil THEN r.err ELSE ""]

\* ------------------------------------------------ Store.handleNodeChildren
\* node.<id>.children with {type, includeDel}: the direct children.
handleNodeChildren(nodeID, typ, includeDel) ==
    [nodes |-> DbNodeDescendents(nodes, points, edges, edgePts, nodeID, typ,
                                 FALSE, includeDel),
     error |-> ""]

\* ------------------------------------------------ Store.handleNotification
\* Bags of user nodes: how many times each user was appended to userNodes.
NoUsers == [u \in UserIDs |-> 0]
AddUsers(f, g) == [u \in UserIDs |-> f[u] + g[u]]

\* findUsers(id): the live user children of id are appended, then the same is done
\* for every live parent of id. There is no set of visited nodes and no removal
\* of duplicates; depth bounds the recursion by the longest path of the store.
RECURSIVE findUsers(_, _, _, _, _, _)
RECURSIVE findUsersOver(_, _, _, _, _, _)
findUsers(ns, ps, es, ep, id, depth) ==
    IF depth = 0 THEN NoUsers
    ELSE LET here == {n.id : n \in DbNodeDescendents(ns, ps, es, ep, id, "user",
                                                     FALSE, FALSE)}
         IN AddUsers([u \in UserIDs |-> IF u \in here THEN 1 ELSE 0],
                     findUsersOver(ns, ps, es, ep, DbEdgeUp(es, ep, id, FALSE), depth))
findUsersOver(ns, ps, es, ep, ups, depth) ==
    IF ups = {} THEN NoUsers
    ELSE LET e == CHOOSE x \in ups : TRUE
         IN AddUsers(findUsers(ns, ps, es, ep, e[1], depth - 1),
                     findUsersOver(ns, ps, es, ep, ups \ {e}, depth))

\* How many times findUsers runs for the node target when it is started at id:
\* once for id itself, then once more through every live parent edge,
\* recursively.
RECURSIVE findUsersRuns(_, _, _, _, _)
RECURSIVE findUsersRunsOver(_, _, _, _, _)
findUsersRuns(es, ep, id, target, depth) ==
    IF depth = 0 THEN 0
    ELSE (IF id = target THEN 1 ELSE 0)
         + findUsersRunsOver(es, ep, DbEdgeUp(es, ep, id, FALSE), target, depth)
findUsersRunsOver(es, ep, ups, target, depth) ==
    IF ups = {} THEN 0
    ELSE LET e == CHOOSE x \in ups : TRUE
         IN findUsersRuns(es, ep, e[1], target, depth - 1)
            + findUsersRunsOver(es, ep, ups \ {e}, target, depth)

NoNotified == [id |-> "", parent |-> "", valid |-> FALSE, walked |-> FALSE, found |-> {},
               sent |-> NoUsers]

\* Mutant of handleNotification: the users are searched from a user node as from
\* any other node.
handleNotificationAlwaysWalk(nodeID, parent, valid) ==
    LET walk == findUsers(nodes, points, edges, edgePts, nodeID,
                          Cardinality(ParentIDs) + 2)
    IN IF ~valid \/ nodeID \notin nodes
       THEN [NoNotified EXCEPT !.id = nodeID, !.valid = valid]
       ELSE [id |-> nodeID, parent |-> parent, valid |-> valid, walked |-> TRUE,
             found |-> {u \in UserIDs : walk[u] > 0},
             sent |-> [u \in UserIDs |->
                          IF UserEmail(u) # "" \/ UserPhone(u) # "" THEN walk[u]
                          ELSE 0]]

\* node.<id>.not (parent: the Parent of the notification, which the search does not
\* read): nothing is done for a notification that does not decode or for
\* an unknown node; a user node is the only target of its notification; from
\* any other node the users are searched upwards. Every entry of userNodes that
\* has an email or a phone gets one message on node.<userID>.msg.
handleNotification(nodeID, parent, valid) ==
    LET isUser == NodeTypeOf(nodeID) = "user"
        userNodes == IF isUser THEN [u \in UserIDs |-> IF u = nodeID THEN 1 ELSE 0]
                     ELSE findUsers(nodes, points, edges, edgePts, nodeID,
                                    Cardinality(ParentIDs) + 2)
    IN IF ~valid \/ nodeID \notin nodes
       THEN [NoNotified EXCEPT !.id = nodeID, !.valid = valid]
       ELSE [id |-> nodeID, parent |-> parent, valid |-> valid, walked |-> ~isUser,
             found |-> {u \in UserIDs : userNodes[u] > 0},
             sent |-> [u \in UserIDs |->
                          IF UserEmail(u) # "" \/ UserPhone(u) # "" THEN userNodes[u]
                          ELSE 0]]

\* ------------------------------------------------------ Store.handleMessage
\* Bags of service nodes: how many times each service was appended to svcNodes.
NoSvcs == [v \in ServiceIDs |-> 0]
AddSvcs(f, g) == [v \in ServiceIDs |-> f[v] + g[v]]

\* A message on node.<userID>.msg; valid: its payload decodes.
Message(userID, parentID, phone, email, valid) ==
    [id |-> userID, parent |-> parentID, phone |-> phone, email |-> email,
     valid |-> valid]

\* findSvcNodes(id): the live message service children of id are appended, then the
\* same is done upwards: from the node of the message (level 0) for the ParentID of
\* the message alone, from every other node for all its live parents. depth bounds
\* the recursion by the longest path of the store.
RECURSIVE findSvcNodes(_, _, _, _, _, _, _, _)
RECURSIVE findSvcNodesOver(_, _, _, _, _, _, _)
findSvcNodes(ns, ps, es, ep, id, parentID, level, depth) ==
    IF depth = 0 THEN NoSvcs
    ELSE LET here == {n.id : n \in DbNodeDescendents(ns, ps, es, ep, id, "msgService",
                                                     FALSE, FALSE)}
             upIDs == IF level = 0 THEN {parentID}
                      ELSE {e[1] : e \in DbEdgeUp(es, ep, id, FALSE)}
         IN AddSvcs([v \in ServiceIDs |-> IF v \in here THEN 1 ELSE 0],
                    findSvcNodesOver(ns, ps, es, ep, upIDs, parentID, depth))
findSvcNodesOver(ns, ps, es, ep, upIDs, parentID, depth) ==
    IF upIDs = {} THEN NoSvcs
    ELSE LET up == CHOOSE x \in upIDs : TRUE
         IN AddSvcs(findSvcNodes(ns, ps, es, ep, up, parentID, 1, depth - 1),
                    findSvcNodesOver(ns, ps, es, ep, upIDs \ {up}, parentID, depth))

\* data.RemoveDuplicateNodesID: one entry per node id.
RemoveDuplicateNodesID(svcNodes) ==
    [v \in ServiceIDs |-> IF svcNodes[v] > 0 THEN 1 ELSE 0]

NoMessaged == [id |-> "", parent |-> "", phone |-> "", email |-> "", valid |-> FALSE,
               walked |-> NoSvcs, svcs |-> {}, sent |-> NoSvcs]

\* Mutant of handleMessage: the duplicates are not removed from svcNodes.
handleMessageNoDedup(message) ==
    LET found == findSvcNodes(nodes, points, edges, edgePts, message.id,
                              message.parent, 0, Cardinality(ParentIDs) + 2)
    IN IF ~message.valid
       THEN [NoMessaged EXCEPT !.id = message.id]
       ELSE [id |-> message.id, parent |-> message.parent, phone |-> message.phone,
             email |-> message.email, valid |-> TRUE,
             walked |-> found,
             svcs |-> {v \in ServiceIDs : found[v] > 0},
             sent |-> [v \in ServiceIDs |->
                          IF SvcService(v) = PointValueTwilio /\ message.phone # ""
                          THEN found[v] ELSE 0]]

\* node.<id>.msg: nothing is done for a message that does not decode; else the
\* services are searched, the duplicates removed, and for every service left that
\* is a twilio service an SMS is sent when the message has a phone number.
handleMessage(message) ==
    LET found == findSvcNodes(nodes, points, edges, edgePts, message.id,
                              message.parent, 0, Cardinality(ParentIDs) + 2)
        svcNodes == RemoveDuplicateNodesID(found)
    IN IF ~message.valid
       THEN [NoMessaged EXCEPT !.id = message.id]
       ELSE [id |-> message.id, parent |-> message.parent, phone |-> message.phone,
             email |-> message.email, valid |-> TRUE,
             walked |-> found,
             svcs |-> {v \in ServiceIDs : svcNodes[v] > 0},
             sent |-> [v \in ServiceIDs |->
                          IF SvcService(v) = PointValueTwilio /\ message.phone # ""
                          THEN svcNodes[v] ELSE 0]]

\* ---------------------------------------- Store.Start: the head; WaitStart
\* The subjects Start subscribes to, in its order, and the handlers of the first
\* two.
Subjects ==
    <<"node.*.points", "node.*.*.points", "node.*", "node.*.children", "node.*.not",
      "node.*.msg", "auth.user">>
SubjectOf(h) == IF h = "np" THEN 1 ELSE 2

\* The goroutines that call WaitStart.
Waiters == {"w1", "w2"}

\* pc: where Start stands: "subscribe", "metrics" (before the NewMetric calls),
\* "lock" (before startedLock.Lock), "started" (inside startedLock), "loop" (in
\* the loop of the sweeper) or "failed" (returned the error of a Subscribe).
\* subs: how many of Subjects are subscribed; metrics: the cycle metrics are
\* created; startedLock: "" or its holder; started, wait: the fields of the
\* Store (a wait channel is named by its caller); closed: the channels closed.
\* wpc, res, ctx: where each caller of WaitStart stands, what it got back, and
\* whether its context has ended. History: nilSample, the handlers whose deferred
\* AddSample ran on a cycle metric not yet created.
NoStart ==
    [pc |-> "subscribe", subs |-> 0, metrics |-> FALSE, startedLock |-> "",
     started |-> FALSE, wait |-> {}, closed |-> {},
     wpc |-> [w \in Waiters |-> "idle"],
     res |-> [w \in Waiters |-> ""],
     ctx |-> [w \in Waiters |-> FALSE],
     nilSample |-> {}]
\* A store whose Start has reached its loop, nobody having waited for it.
Started ==
    [NoStart EXCEPT !.pc = "loop", !.subs = Len(Subjects), !.metrics = TRUE,
                    !.started = TRUE]

\* The body of WaitStart inside startedLock: nil at once when started, else a new
\* channel is appended to wait and the caller goes to its select.
waitStart(w) ==
    IF startup.started
    THEN [startup EXCEPT !.startedLock = "", !.wpc[w] = "done", !.res[w] = "nil"]
    ELSE [startup EXCEPT !.startedLock = "", !.wpc[w] = "select", !.wait = @ \cup {w}]

\* ------------------------------------------- Store.Start: the schedule sweeper
PointTypeTrigger == "trigger"

\* The loop of Start. pc: "select" (at the select), "sweep" (in the loop over
\* childNodes) or "stopped" (Start has returned); stop: chStop is closed; timer:
\* "armed", "fired" (t.C holds a tick) or "idle"; todo: the childNodes the running
\* sweep has not yet handed to runSchedule. History: swept, the rule nodes the
\* last sweep handed to processRuleNode; tree, the edges as that sweep found them;
\* complete, that sweep has gone through all its childNodes. eval, seen: the rule
\* nodes processRuleNode is evaluating for the sweep, and the state of the rules
\* as it read them from the Db.
NoSched == [pc |-> "select", stop |-> FALSE, timer |-> "armed", todo |-> {},
            swept |-> {}, tree |-> <<{}, <<>>>>, complete |-> FALSE,
            eval |-> {}, seen |-> NoRules]

\* runSchedule(node): the rule nodes handed to processRuleNode with a trigger
\* point: the node itself when it is a rule; for a group, what runSchedule gives
\* for each of its live children; nothing for a node of any other type. depth
\* bounds the recursion by the longest path of the store.
RECURSIVE runSchedule(_, _, _, _, _, _)
runSchedule(ns, ps, es, ep, id, depth) ==
    IF depth = 0 THEN {}
    ELSE IF NodeTypeOf(id) = "rule" THEN {id}
    ELSE IF NodeTypeOf(id) = "group"
    THEN UNION {runSchedule(ns, ps, es, ep, n.id, depth - 1) :
                   n \in DbNodeDescendents(ns, ps, es, ep, id, "", FALSE, FALSE)}
    ELSE {}

\* ---------------------------------------------------- Store.StartUpdate
\* The goroutines that call StartUpdate, and the devices they update.
Updaters == {"s1", "s2"}
UpdateIDs == {"a", "b"}

\* lock: Store.lock, "" or its holder (a caller of StartUpdate, or the goroutine
\* of the update of a device); updates: the keys of Store.updates; pc, id, res: where
\* each caller stands, the device it asked for and what StartUpdate returned to
\* it; job: the goroutine that sends the file of a device; state: the last
\* SwUpdateState sent for a device.
NoUpd == [lock |-> "", updates |-> {},
          pc |-> [u \in Updaters |-> "idle"],
          id |-> [u \in Updaters |-> ""],
          res |-> [u \in Updaters |-> ""],
          job |-> [d \in UpdateIDs |-> "none"],
          state |-> [d \in UpdateIDs |-> ""]]

\* Mutant of startUpdate: the updates map is not looked at.
startUpdateNoCheck(u, id, fail) ==
    IF fail
    THEN [upd EXCEPT !.res[u] = "error", !.pc[u] = "done"]
    ELSE [upd EXCEPT !.res[u] = "ok", !.pc[u] = "done",
                     !.updates = @ \cup {id},
                     !.job[id] = "running",
                     !.state[id] = "running"]

\* The body of StartUpdate under st.lock, for device id: an update under way is
\* refused; else the device is entered in updates and the running state is sent,
\* and if that fails (fail) the entry is deleted again; else the goroutine that
\* sends the file is started.
startUpdate(u, id, fail) ==
    IF id \in upd.updates
    THEN [upd EXCEPT !.res[u] = "busy", !.pc[u] = "done"]
    ELSE IF fail
    THEN [upd EXCEPT !.res[u] = "error", !.pc[u] = "done"]
    ELSE [upd EXCEPT !.res[u] = "ok", !.pc[u] = "done",
                     !.updates = @ \cup {id},
                     !.job[id] = "running",
                     !.state[id] = "running"]

\* ------------------------------------------------- Store.handleAuthUser
\* The payload of a reply on auth.user: an encoded NodesRequest{nodes, error}; the
\* empty payload is what st.nc.Publish(msg.Reply, nil) sends.
NoPayload == [nodes |-> <<>>, error |-> ""]
\* A request on auth.user: no data, data that does not decode, or points with or
\* without ("-") an email and a pass point.
AuthReq(data, email, pass) == [data |-> data, email |-> email, pass |-> pass]
NoAuth == [handled |-> FALSE, req |-> AuthReq("", "-", "-"), tokenFail |-> FALSE,
           encFail |-> FALSE, payload |-> NoPayload]

\* Db.userCheck: the user nodes with that email and that password.
DbUserCheck(ns, email, pass) ==
    {u \in UserIDs \cap ns : UserEmail(u) = email /\ UserPass(u) = pass}

\* Mutant of handleAuthUser: an invalid user is answered with an error.
handleAuthUserErrorReply(req, tokenFail, encFail) ==
    LET users == DbUserCheck(nodes, req.email, req.pass)
        user == CHOOSE u \in users : TRUE
    IN IF req.data # "points" \/ req.email = "-" \/ req.pass = "-" THEN NoPayload
       ELSE IF users = {} THEN [nodes |-> <<>>, error |-> "invalid user"]
       ELSE IF tokenFail THEN NoPayload
       ELSE IF encFail THEN [nodes |-> <<>>, error |-> "Error pb encoding node"]
       ELSE [nodes |-> <<[id |-> user, type |-> "user", token |-> ""],
                         [id |-> "", type |-> "jwt", token |-> user]>>,
             error |-> ""]

\* auth.user: returnNothing() for a message without data, one that does not
\* decode, one without email or pass point, an invalid user and a failed
\* NewToken; otherwise the user node and a jwt node with the token.
handleAuthUser(req, tokenFail, encFail) ==
    LET users == DbUserCheck(nodes, req.email, req.pass)
        user == CHOOSE u \in users : TRUE
    IN IF req.data # "points" \/ req.email = "-" \/ req.pass = "-" THEN NoPayload
       ELSE IF users = {} THEN NoPayload
       ELSE IF tokenFail THEN NoPayload
       ELSE IF encFail THEN [nodes |-> <<>>, error |-> "Error pb encoding node"]
       ELSE [nodes |-> <<[id |-> user, type |-> "user", token |-> ""],
                         [id |-> "", type |-> "jwt", token |-> user]>>,
             error |-> ""]

\* ---------------------------------------------------- the serial client
\* The packets of the serial port: a sequence number (one byte), a subject and
\* points. An ASCII log line is a packet that does not decode as such.
SerialSeqs == {0, 10, 255}
SerialPacket(seq, subject, pts) == [seq |-> seq, subject |-> subject, points |-> pts]
LogPacket == [seq |-> 0, subject |-> "log", points |-> <<>>]
PointTypeUptime == "uptime"
\* client.SubjectNodePoints(id): "node.<id>.points".
SubjectNodePoints(id) == <<"node", id, "points">>

\* The client: the port (inq: written by the device side and not yet read, outq:
\* written back by the client), the packet in hand, the count of packets read,
\* the sequence numbers of the points packets read, and the points applied to
\* their nodes.
NoSerial == [pc |-> "idle", inq |-> <<>>, outq |-> <<>>, pkt |-> LogPacket,
             rx |-> 0, log |-> 0, got |-> <<>>, applied |-> <<>>]

\* Mutant of serialAck: the packet is echoed, subject and points included.
serialAckEcho(pkt) == pkt

\* The ack of a points packet: its sequence number, no subject, no points.
serialAck(pkt) == SerialPacket(pkt.seq, "", <<>>)

\* ------------------------------------------------------------- the history
Max(S) == CHOOSE x \in S : \A y \in S : y <= x

\* firstAt after the points of a batch were handed to the Db for node id.
RECURSIVE RecordWrites(_, _, _)
RecordWrites(f, id, batch) ==
    IF batch = <<>> THEN f
    ELSE LET p == Head(batch)
         IN RecordWrites(
                IF f[id][p.time] = 0 THEN [f EXCEPT ![id][p.time] = p.value] ELSE f,
                id, Tail(batch))

\* The latest ACKed point of a node: the one ACKed last among those of greatest time.
RECURSIVE RecordAcks(_, _)
RecordAcks(a, batch) ==
    IF batch = <<>> THEN a
    ELSE LET p == Head(batch)
         IN RecordAcks(IF p.time >= a.time THEN [time |-> p.time, value |-> p.value]
                       ELSE a,
                       Tail(batch))

Range(q) == {q[i] : i \in DOMAIN q}

\* Which points of a batch are no newer than what their slot holds before the
\* batch is merged: "all", "some" or "none" of them.
Stale(slots, batch) ==
    LET old == {i \in DOMAIN batch : batch[i].time <= slots[batch[i].type].time}
    IN IF old = DOMAIN batch THEN "all" ELSE IF old = {} THEN "none" ELSE "some"

\* What the points of a message from sourceNodeID are to condition c: "none" when
\* the condition selects none of them (or is no node of the store), "met" when
\* all the selected ones meet its predicate, "failed" when the last selected one
\* fails it, "mixed" otherwise.
Met(ns, c, sourceNodeID, batch) ==
    LET sel == {i \in DOMAIN batch : CondSelects(c, sourceNodeID, batch[i])}
    IN IF c \notin ns \/ sel = {} THEN "none"
       ELSE IF \A i \in sel : CondMeets(c, batch[i]) THEN "met"
       ELSE IF ~CondMeets(c, batch[Max(sel)]) THEN "failed"
       ELSE "mixed"

\* ------------------------------------------ front end: Components.NodeUser
\* populateFeID numbers the node views of tree i from i * FeIDStride on; Tick
\* looks for a node message older than NodeMsgMs; Time.every sends a Tick every
\* TickMs milliseconds.
FeIDStride == 10000
NodeMsgMs == 3000
TickMs == 5000
\* The page shows at most MaxTrees trees and the clock stops after MaxTicks
\* periods.
MaxTrees == 2
MaxTicks == 3

\* Maybe a: Nothing, or Just x.
Nothing == {}
Just(x) == {x}

\* A tree of node views is held by its size: its node views are the indexes
\* 0 .. size - 1 in the order of Tree.indexedMap, and feID is the feID of the root
\* node view, the node view of index j having feID + j. A node view of the page is
\* <<i, j>>: index j of tree i. The trees of a response have one node, as many
\* nodes as the stride, or one more.
TreeSizes == {1, FeIDStride, FeIDStride + 1}
NodeLists == UNION {[1..n -> TreeSizes] : n \in 1..MaxTrees}
\* The node views the user points at: the first and the last of every tree.
NodeViews(trees) == {<<i, j>> : i \in DOMAIN trees, j \in {0}} \cup
                    {<<i, trees[i].size - 1>> : i \in DOMAIN trees}
FeID(trees, n) == trees[n[1]].feID + n[2]
\* Tree.map with the test n.feID == feID: the node views that pass it.
WithFeID(trees, feID) ==
    {<<i, feID - trees[i].feID>> :
         i \in {k \in DOMAIN trees : feID - trees[k].feID \in 0..(trees[k].size - 1)}}

\* nodeListToTrees: one tree for every node without parent; nodeToNodeView sets
\* feID = 0.
nodeListToTrees(sizes) == [i \in DOMAIN sizes |-> [size |-> sizes[i], feID |-> 0]]

\* populateFeID: List.indexedMap over the trees (i from 0), Tree.indexedMap over
\* the node views of a tree (j from 0): feID = i * 10000 + j.
populateFeID(trees) ==
    [i \in DOMAIN trees |-> [trees[i] EXCEPT !.feID = (i - 1) * FeIDStride]]

\* mergeNodeTrees: the node views of the new trees, with expDetail of the node
\* view of the same node in the current trees (the same index of the same tree).
mergeNodeTrees(expDetail, new) ==
    {n \in expDetail : n[1] \in DOMAIN new /\ n[2] < new[n[1]].size}

\* toggleExpDetail: expDetail is inverted in every node view with n.feID == feID.
toggleExpDetail(trees, expDetail, feID) ==
    LET hit == WithFeID(trees, feID)
    IN (expDetail \ hit) \cup (hit \ expDetail)

\* mergeNodesEdit: the node views that get mod = True, those with
\* edit.feID == n.feID.
mergeNodesEdit(trees, nodeEdit) ==
    UNION {WithFeID(trees, edit.feID) : edit \in nodeEdit}

defaultModel ==
    [now |-> 0, nodes |-> <<>>, expDetail |-> {}, nodeEdit |-> Nothing,
     copyMove |-> "CopyMoveNone", nodeMsg |-> Nothing]

\* Mutant of updateTick: the age of the node message is taken from the time of
\* the Tick.
updateTickNewNow(model, t) ==
    [model EXCEPT !.now = t,
                  !.nodeMsg = {msg \in model.nodeMsg : t - msg.time > NodeMsgMs}]

\* update (Tick now): the node message stays when model.now, the time of the Tick
\* before, is more than NodeMsgMs after its time, and is dropped otherwise; then
\* now is stored.
updateTick(model, t) ==
    [model EXCEPT !.now = t,
                  !.nodeMsg = {msg \in model.nodeMsg :
                                   model.now - msg.time > NodeMsgMs}]

\* update (CopyNode feID ...): the node message is stamped with model.now.
updateCopyNode(model, feID) ==
    [model EXCEPT !.copyMove = "Copy",
                  !.nodeMsg = Just([feID |-> feID, text |-> "Node copied",
                                    time |-> model.now])]

\* update (EditNodePoint feID ...), update (ToggleExpDetail feID).
updateEditNodePoint(model, feID) == [model EXCEPT !.nodeEdit = Just([feID |-> feID])]
updateToggleExpDetail(model, feID) ==
    [model EXCEPT !.expDetail = toggleExpDetail(model.nodes, model.expDetail, feID)]

\* update (ApiRespList (Data.Success nodes)).
updateApiRespList(model, sizes) ==
    LET new == populateFeID(nodeListToTrees(sizes))
    IN [model EXCEPT !.nodes = new, !.expDetail = mergeNodeTrees(model.expDetail, new)]

\* ----------------------------------------------------------------- actions
Handlers == {"np", "ep"}
NoCur == [handler |-> "", node |-> "", reply |-> "", valid |-> FALSE,
          failed |-> FALSE,
          cycle |-> FALSE, stale |-> "", result |-> "", steps |-> <<>>,
          ruleNodes |-> {}, met |-> [c \in ConditionIDs |-> "none"],
          repair |-> FALSE, upErr |-> ErrNil, upPoints |-> <<>>]
NoResp == [op |-> "", id |-> "", nodes |-> {}, error |-> ""]
Inbox == "_INBOX.1"

Init ==
    /\ nodes = {RootID}
    /\ points = (RootID :> NoNodePoints)
    /\ edges = {<<"root", RootID>>}
    /\ edgePts = (<<"root", RootID>> :> NoEdgePoints)
    /\ lock = ""
    /\ pc = [h \in Handlers |-> "idle"]
    /\ cur = NoCur
    /\ out = <<>>
    /\ upstream = NoRuns
    /\ bus = {}
    /\ resp = NoResp
    /\ firstAt = [id \in NodeIDs |-> [t \in Times |-> 0]]
    /\ acked = [id \in NodeIDs |-> NoPoint]
    /\ now = 1
    /\ rules = NoRules
    /\ ruleFresh = FALSE
    /\ notified = NoNotified
    /\ auth = NoAuth
    /\ serial = NoSerial
    /\ messaged = NoMessaged
    /\ sched = NoSched
    /\ upd = NoUpd
    /\ startup = Started
    /\ page = defaultModel

\* Mutant of Lock: the handler goes on without waiting for the lock.
LockNoWait(h) ==
    /\ pc[h] = "idle"
    /\ lock' = h
    /\ pc' = [pc EXCEPT ![h] = "locked"]
    /\ UNCHANGED <<nodes, points, edges, edgePts, cur, out, upstream, bus, resp,
                   firstAt, acked, ruleVars, svcVars>>

\* A message is delivered to a points handler, which Start has subscribed:
\* st.nodeUpdateLock.Lock() at its head waits for the lock.
Lock(h) ==
    /\ startup.subs >= SubjectOf(h)
    /\ pc[h] = "idle"
    /\ lock = ""
    /\ lock' = h
    /\ pc' = [pc EXCEPT ![h] = "locked"]
    /\ UNCHANGED <<nodes, points, edges, edgePts, cur, out, upstream, bus, resp,
                   firstAt, acked, ruleVars, svcVars>>

\* Mutant of Unlock: handleNodePoints has asked for the ACK of the edge point it
\* sent and waits for it before it returns.
UnlockAfterAck(h) ==
    /\ pc[h] = "done"
    /\ h = "np" => bus = {}
    /\ lock' = ""
    /\ pc' = [pc EXCEPT ![h] = "idle"]
    /\ cur' = NoCur
    /\ out' = <<>>
    /\ upstream' = NoRuns
    /\ UNCHANGED <<nodes, points, edges, edgePts, bus, resp, firstAt, acked, ruleVars,
                   svcVars>>

\* The handler returns: the deferred st.nodeUpdateLock.Unlock(), then the deferred
\* AddSample on the cycle metric of the handler, created or not.
Unlock(h) ==
    /\ pc[h] = "done"
    /\ lock' = ""
    /\ pc' = [pc EXCEPT ![h] = "idle"]
    /\ cur' = NoCur
    /\ out' = <<>>
    /\ upstream' = NoRuns
    /\ startup' = IF startup.metrics THEN startup
                ELSE [startup EXCEPT !.nilSample = @ \cup {h}]
    /\ UNCHANGED <<nodes, points, edges, edgePts, bus, resp, firstAt, acked, ruleVars,
                   runVars>>

\* handleNodePoints on one delivered message of msgs, with one of upErrs going
\* wrong on the way up (upErr and upPoints keep it, and the points of the message,
\* when the way up was taken and something went wrong).
HandleNodePoints(msgs, upErrs) ==
    /\ pc["np"] = "locked"
    /\ \E msg \in msgs, fail \in BOOLEAN, upErr \in upErrs :
         LET r == handleNodePoints(msg, fail, upErr)
             failedUp == r.result = "ok" /\ upErr # ErrNil
         IN /\ nodes' = r.nodes
            /\ points' = r.points
            /\ out' = r.out
            /\ upstream' = r.runs
            /\ IF r.repairs = {} THEN bus' = bus
               ELSE \E m \in r.repairs : bus' = bus \cup {m}
            /\ cur' = [handler |-> "np", node |-> IF msg.valid THEN msg.node ELSE "",
                       reply |-> msg.reply, valid |-> msg.valid,
                       failed |-> msg.valid /\ fail, cycle |-> FALSE,
                       stale |-> IF msg.valid
                                 THEN Stale(IF msg.node \in nodes THEN points[msg.node]
                                            ELSE NoNodePoints, msg.points)
                                 ELSE "",
                       result |-> r.result, steps |-> r.steps,
                       ruleNodes |-> r.ruleNodes,
                       met |-> [c \in ConditionIDs |->
                                   IF msg.valid
                                   THEN Met(nodes, c, msg.node, msg.points)
                                   ELSE "none"],
                       repair |-> FALSE,
                       upErr |-> IF failedUp THEN upErr ELSE ErrNil,
                       upPoints |-> IF failedUp THEN msg.points ELSE <<>>]
            /\ firstAt' = IF msg.valid /\ ~fail
                          THEN RecordWrites(firstAt, msg.node, msg.points)
                          ELSE firstAt
            /\ acked' = IF msg.valid /\ "" \in Range(r.out)
                        THEN [acked EXCEPT ![msg.node] = RecordAcks(@, msg.points)]
                        ELSE acked
            /\ rules' = r.rules
            /\ ruleFresh' = (ruleFresh \/ r.ruleNodes # {})
    /\ pc' = [pc EXCEPT !["np"] = "done"]
    /\ UNCHANGED <<edges, edgePts, lock, resp, now, svcVars>>

\* handleEdgePoints on one delivered message: one of msgs, or one the store
\* published itself.
HandleEdgePoints(msgs) ==
    /\ pc["ep"] = "locked"
    /\ \E msg \in msgs \cup bus, fail \in BOOLEAN :
         LET r == handleEdgePoints(msg, fail)
         IN /\ edges' = r.edges
            /\ edgePts' = r.edgePts
            /\ out' = r.out
            /\ bus' = bus \ {msg}
            /\ cur' = [handler |-> "ep", node |-> IF msg.valid THEN msg.node ELSE "",
                       reply |-> msg.reply, valid |-> msg.valid,
                       failed |-> msg.valid /\ fail,
                       cycle |-> msg.valid /\ WouldCycle(edges, msg.node, msg.parent),
                       stale |-> "", result |-> r.result, steps |-> r.steps,
                       ruleNodes |-> {}, met |-> NoCur.met,
                       repair |-> msg \in bus,
                       upErr |-> ErrNil, upPoints |-> <<>>]
            /\ ruleFresh' = (ruleFresh /\ r.edges = edges /\ r.edgePts = edgePts)
    /\ pc' = [pc EXCEPT !["ep"] = "done"]
    /\ UNCHANGED <<nodes, points, lock, upstream, resp, firstAt, acked, now, rules,
                   svcVars>>

\* handleNode on a request node.<id> (no lock is taken).
HandleNode(ids, parents) ==
    /\ \E id \in ids, parent \in parents :
         LET r == handleNode(id, parent)
         IN resp' = [op |-> parent, id |-> id, nodes |-> r.nodes, error |-> r.error]
    /\ UNCHANGED <<nodes, points, edges, edgePts, lock, pc, cur, out, upstream, bus,
                   firstAt, acked, ruleVars, svcVars>>

\* handleNodeChildren on a request node.<id>.children (no lock is taken).
HandleNodeChildren(ids, includeDels) ==
    /\ \E id \in ids, includeDel \in includeDels :
         LET r == handleNodeChildren(id, "", includeDel)
         IN resp' = [op |-> IF includeDel THEN "children+del" ELSE "children",
                     id |-> id, nodes |-> r.nodes, error |-> r.error]
    /\ UNCHANGED <<nodes, points, edges, edgePts, lock, pc, cur, out, upstream, bus,
                   firstAt, acked, ruleVars, svcVars>>

\* ------------------------------------------------------- the environments
Replies == {"", Inbox}
\* Point writes: every batch to device a, each asking for the ACK.
PointMsgs ==
    {NodeMsg("a", b, Inbox, TRUE) : b \in SeqsUpTo(NodePoints, MaxBatch)}
    \cup {NodeMsg("a", <<>>, r, FALSE) : r \in Replies}
\* Edge writes that delete and restore the edge r -> a.
FewEdgeMsgs ==
    {EdgeMsg("a", "r", <<p>>, Inbox, TRUE) : p \in EdgePoints}

NextPoints ==
    \/ \E h \in Handlers : Lock(h)
    \/ \E h \in Handlers : Unlock(h)
    \/ HandleNodePoints(PointMsgs, {ErrNil})
    \/ HandleEdgePoints(FewEdgeMsgs)
    \/ HandleNode({"a"}, {"all"})

SpecPoints == Init /\ [][NextPoints]_vars

\* Edge writes that build, delete and restore a tree over r, a and b, propose
\* cycles of one, two and three edges, and malformed ones; point writes that create
\* a and b.
StoreEdgeMsgs ==
    {EdgeMsg(e[1], e[2], <<p>>, r, TRUE) :
        e \in {<<"a", "r">>, <<"b", "a">>, <<"r", "b">>, <<"a", "b">>, <<"a", "a">>},
        p \in EdgePoints, r \in Replies}
    \cup {EdgeMsg("a", "r", <<>>, r, FALSE) : r \in Replies}
StorePointMsgs ==
    {NodeMsg(n, <<[type |-> PointTypeValue, time |-> 1, value |-> 1]>>, Inbox, TRUE) :
        n \in {"a", "b"}}
    \cup {NodeMsg("b", <<[type |-> PointTypeValue, time |-> 1, value |-> 1]>>, "", TRUE)}
    \cup {NodeMsg("a", <<>>, r, FALSE) : r \in Replies}
\* Edge writes that put a and b under the root and b under a as well, and delete
\* and restore these edges.
ReadEdgeMsgs ==
    {EdgeMsg(e[1], e[2], <<p>>, Inbox, TRUE) :
        e \in {<<"a", "r">>, <<"b", "r">>, <<"b", "a">>}, p \in EdgePoints}
ReadPointMsgs ==
    {NodeMsg(n, <<[type |-> PointTypeValue, time |-> 1, value |-> 1]>>, Inbox, TRUE) :
        n \in {"a", "b"}}

NextStore ==
    \/ \E h \in Handlers : Lock(h)
    \/ \E h \in Handlers : Unlock(h)
    \/ HandleNodePoints(StorePointMsgs, {ErrNil})
    \/ HandleEdgePoints(StoreEdgeMsgs)

SpecStore == Init /\ [][NextStore]_vars

NextRead ==
    \/ \E h \in Handlers : Lock(h)
    \/ \E h \in Handlers : Unlock(h)
    \/ HandleNodePoints(ReadPointMsgs, {ErrNil})
    \/ HandleEdgePoints(ReadEdgeMsgs)
    \/ HandleNode({"b"}, {"all", "a"})
    \/ HandleNodeChildren({"r", "a"}, BOOLEAN)

SpecRead == Init /\ [][NextRead]_vars

\* The rule engine: the store holds the devices "a" and "b" under the root node
\* and, beside them, the rule with its conditions and actions. Writers send values
\* to the devices; the edges from the rule to its conditions are deleted and
\* restored; the clock goes on.
RuleTree ==
    {<<"root", RootID>>, <<RootID, "a">>, <<RootID, "b">>, <<RootID, "rule1">>}
    \cup {<<"rule1", c>> : c \in ConditionIDs \cup ActionIDs \cup ActionInactiveIDs}
InitRule ==
    /\ nodes = {e[2] : e \in RuleTree}
    /\ points = [id \in {e[2] : e \in RuleTree} |-> NoNodePoints]
    /\ edges = RuleTree
    /\ edgePts = [e \in RuleTree |-> NoEdgePoints]
    /\ lock = ""
    /\ pc = [h \in Handlers |-> "idle"]
    /\ cur = NoCur
    /\ out = <<>>
    /\ upstream = NoRuns
    /\ bus = {}
    /\ resp = NoResp
    /\ firstAt = [id \in NodeIDs |-> [t \in Times |-> 0]]
    /\ acked = [id \in NodeIDs |-> NoPoint]
    /\ now = 1
    /\ rules = NoRules
    /\ ruleFresh = FALSE
    /\ notified = NoNotified
    /\ auth = NoAuth
    /\ serial = NoSerial
    /\ messaged = NoMessaged
    /\ sched = NoSched
    /\ upd = NoUpd
    /\ startup = Started
    /\ page = defaultModel

\* handleNotification on a message node.<id>.not (no lock is taken); the
\* notification names a live parent of the node, when the node has one.
HandleNotification(ids) ==
    /\ \E id \in ids, valid \in BOOLEAN :
          LET ups == {e[1] : e \in DbEdgeUp(edges, edgePts, id, FALSE)}
          IN \E parent \in (IF ups = {} THEN {""} ELSE ups) :
                notified' = handleNotification(id, parent, valid)
    /\ UNCHANGED <<storeVars, ruleVars, auth, serial, moreVars>>

\* handleMessage on a message node.<id>.msg (no lock is taken).
HandleMessage(msgs) ==
    /\ \E message \in msgs : messaged' = handleMessage(message)
    /\ UNCHANGED <<storeVars, ruleVars, notified, auth, serial, sched, upd, startup, page>>

\* handleAuthUser on a request auth.user that carries a reply subject.
HandleAuthUser(reqs) ==
    /\ \E req \in reqs, tokenFail \in BOOLEAN, encFail \in BOOLEAN :
          auth' = [handled |-> TRUE, req |-> req, tokenFail |-> tokenFail,
                   encFail |-> encFail,
                   payload |-> handleAuthUser(req, tokenFail, encFail)]
    /\ UNCHANGED <<storeVars, ruleVars, notified, serial, moreVars>>

\* The device side writes a packet to the port.
DeviceWrite(pkts) ==
    /\ serial.rx + Len(serial.inq) < MaxPackets
    /\ \E pkt \in pkts : serial' = [serial EXCEPT !.inq = Append(@, pkt)]
    /\ UNCHANGED <<storeVars, ruleVars, notified, auth, moreVars>>

\* The client reads a packet: a log line is kept and that is all, a points packet
\* is taken in hand.
SerialRead ==
    /\ serial.pc = "idle"
    /\ serial.inq # <<>>
    /\ LET pkt == Head(serial.inq)
       IN serial' = IF pkt = LogPacket
                    THEN [serial EXCEPT !.inq = Tail(@), !.rx = @ + 1, !.log = @ + 1]
                    ELSE [serial EXCEPT !.inq = Tail(@), !.rx = @ + 1, !.pkt = pkt,
                                        !.got = Append(@, pkt.seq), !.pc = "read"]
    /\ UNCHANGED <<storeVars, ruleVars, notified, auth, moreVars>>

\* The client sends the points of the packet in hand to the node of the subject.
SerialApply ==
    /\ serial.pc = "read"
    /\ serial' = [serial EXCEPT !.applied = Append(@, [seq |-> serial.pkt.seq,
                                                       node |-> serial.pkt.subject[2],
                                                       points |-> serial.pkt.points]),
                                !.pc = "applied"]
    /\ UNCHANGED <<storeVars, ruleVars, notified, auth, moreVars>>

\* The client writes the ack of the packet in hand to the port.
SerialAck ==
    /\ serial.pc = "applied"
    /\ serial' = [serial EXCEPT !.outq = Append(@, serialAck(serial.pkt)),
                                !.pc = "idle"]
    /\ UNCHANGED <<storeVars, ruleVars, notified, auth, moreVars>>

\* Mutant of UpdLock: StartUpdate takes the lock of the points handlers.
UpdLockNodeUpdate(u) ==
    /\ upd.pc[u] = "idle"
    /\ lock = ""
    /\ lock' = u
    /\ \E id \in UpdateIDs :
          upd' = [upd EXCEPT !.pc[u] = "locked", !.id[u] = id, !.res[u] = ""]
    /\ UNCHANGED <<nodes, points, edges, edgePts, pc, cur, out, upstream, bus, resp,
                   firstAt, acked, ruleVars, notified, auth, serial, messaged, sched, startup, page>>

\* StartUpdate(id, url), st.lock.Lock(): waits for the lock of the updates.
UpdLock(u) ==
    /\ upd.pc[u] = "idle"
    /\ upd.lock = ""
    /\ \E id \in UpdateIDs :
          upd' = [upd EXCEPT !.lock = u, !.pc[u] = "locked", !.id[u] = id,
                             !.res[u] = ""]
    /\ UNCHANGED <<storeVars, ruleVars, notified, auth, serial, messaged, sched, startup, page>>

\* StartUpdate between Lock and the deferred Unlock.
StartUpdate(u) ==
    /\ upd.pc[u] = "locked"
    /\ \E fail \in BOOLEAN : upd' = startUpdate(u, upd.id[u], fail)
    /\ UNCHANGED <<storeVars, ruleVars, notified, auth, serial, messaged, sched, startup, page>>

\* The deferred st.lock.Unlock(): StartUpdate returns. (Under the mutant of
\* UpdLock the lock held is the other one and is given back as well.)
UpdUnlock(u) ==
    /\ upd.pc[u] = "done"
    /\ upd' = [upd EXCEPT !.lock = IF @ = u THEN "" ELSE @, !.pc[u] = "idle"]
    /\ lock' = IF lock = u THEN "" ELSE lock
    /\ UNCHANGED <<nodes, points, edges, edgePts, pc, cur, out, upstream, bus, resp,
                   firstAt, acked, ruleVars, notified, auth, serial, messaged, sched, startup, page>>

\* The goroutine of an update, the file sent or failed: st.lock.Lock().
UpdateDoneLock(d) ==
    /\ upd.job[d] = "running"
    /\ upd.lock = ""
    /\ upd' = [upd EXCEPT !.lock = d, !.job[d] = "locked"]
    /\ UNCHANGED <<storeVars, ruleVars, notified, auth, serial, messaged, sched, startup, page>>

\* The goroutine of an update: delete(st.updates, id), st.lock.Unlock(), and the
\* last state is sent.
UpdateDone(d) ==
    /\ upd.job[d] = "locked"
    /\ upd' = [upd EXCEPT !.lock = "", !.job[d] = "none", !.updates = @ \ {d},
                          !.state[d] = "done"]
    /\ UNCHANGED <<storeVars, ruleVars, notified, auth, serial, messaged, sched, startup, page>>

\* Start: the next nc.Subscribe; when it fails Start returns its error, the
\* subscriptions made so far staying in place.
Subscribe ==
    /\ startup.pc = "subscribe"
    /\ \E fail \in BOOLEAN :
          startup' = IF fail THEN [startup EXCEPT !.pc = "failed"]
                   ELSE [startup EXCEPT !.subs = @ + 1,
                                      !.pc = IF startup.subs + 1 = Len(Subjects)
                                             THEN "metrics" ELSE @]
    /\ UNCHANGED <<storeVars, ruleVars, runVars>>

\* Start: the four client.NewMetric calls.
NewMetrics ==
    /\ startup.pc = "metrics"
    /\ startup' = [startup EXCEPT !.metrics = TRUE, !.pc = "lock"]
    /\ UNCHANGED <<storeVars, ruleVars, runVars>>

\* Start: st.startedLock.Lock().
StartLock ==
    /\ startup.pc = "lock"
    /\ startup.startedLock = ""
    /\ startup' = [startup EXCEPT !.startedLock = "start", !.pc = "started"]
    /\ UNCHANGED <<storeVars, ruleVars, runVars>>

\* Mutant of SetStarted: started is set and the wait channels are left open.
SetStartedNoClose ==
    /\ startup.pc = "started"
    /\ startup' = [startup EXCEPT !.started = TRUE, !.startedLock = "", !.pc = "loop"]
    /\ UNCHANGED <<storeVars, ruleVars, runVars>>

\* Start inside startedLock: started = true, every channel of wait is closed,
\* Unlock; the loop of the sweeper follows.
SetStarted ==
    /\ startup.pc = "started"
    /\ startup' = [startup EXCEPT !.started = TRUE, !.closed = @ \cup startup.wait,
                              !.startedLock = "", !.pc = "loop"]
    /\ UNCHANGED <<storeVars, ruleVars, runVars>>

\* WaitStart(ctx): st.startedLock.Lock().
WaitStartLock(w) ==
    /\ startup.wpc[w] = "idle"
    /\ startup.startedLock = ""
    /\ startup' = [startup EXCEPT !.startedLock = w, !.wpc[w] = "locked"]
    /\ UNCHANGED <<storeVars, ruleVars, runVars>>

\* WaitStart between Lock and Unlock.
WaitStart(w) ==
    /\ startup.wpc[w] = "locked"
    /\ startup' = waitStart(w)
    /\ UNCHANGED <<storeVars, ruleVars, runVars>>

\* The select of WaitStart: one of its ready cases, ctx.Done() or the closed
\* channel.
WaitStartSelect(w) ==
    /\ startup.wpc[w] = "select"
    /\ \/ /\ startup.ctx[w]
          /\ startup' = [startup EXCEPT !.wpc[w] = "done", !.res[w] = "timeout"]
       \/ /\ w \in startup.closed
          /\ startup' = [startup EXCEPT !.wpc[w] = "done", !.res[w] = "nil"]
    /\ UNCHANGED <<storeVars, ruleVars, runVars>>

\* The context of a caller of WaitStart ends (deadline or cancel).
CtxDone(w) ==
    /\ startup.wpc[w] # "done"
    /\ ~startup.ctx[w]
    /\ startup' = [startup EXCEPT !.ctx[w] = TRUE]
    /\ UNCHANGED <<storeVars, ruleVars, runVars>>

\* The timer of the loop fires.
TimerFire ==
    /\ sched.timer = "armed"
    /\ sched' = [sched EXCEPT !.timer = "fired"]
    /\ UNCHANGED <<storeVars, ruleVars, notified, auth, serial, messaged, upd, startup, page>>

\* Store.Stop: close(st.chStop), once.
Stop ==
    /\ ~sched.stop
    /\ sched' = [sched EXCEPT !.stop = TRUE]
    /\ UNCHANGED <<storeVars, ruleVars, notified, auth, serial, messaged, upd, startup, page>>

\* Mutant of StartStopped: the loop logs the stop and goes on.
StartStoppedGoesOn ==
    /\ sched.pc = "select"
    /\ sched.stop
    /\ UNCHANGED vars

\* The select of the loop, case <-st.chStop: Start returns.
StartStopped ==
    /\ sched.pc = "select"
    /\ sched.stop
    /\ sched' = [sched EXCEPT !.pc = "stopped"]
    /\ UNCHANGED <<storeVars, ruleVars, notified, auth, serial, messaged, upd, startup, page>>

\* The select of the loop, case <-t.C: a sweep begins with the live children of
\* the root node.
StartSweep ==
    /\ sched.pc = "select"
    /\ sched.timer = "fired"
    /\ sched' = [sched EXCEPT
                    !.pc = "sweep", !.timer = "idle",
                    !.todo = {n.id : n \in DbNodeDescendents(nodes, points, edges,
                                                             edgePts, RootID, "",
                                                             FALSE, FALSE)},
                    !.swept = {}, !.tree = <<edges, edgePts>>, !.complete = FALSE]
    /\ UNCHANGED <<storeVars, ruleVars, notified, auth, serial, messaged, upd, startup, page>>

\* One turn of the loop over childNodes: runSchedule(c), no lock taken, up to
\* the point where processRuleNode has read the rule from the Db.
RunSchedule ==
    /\ sched.pc = "sweep"
    /\ sched.eval = {}
    /\ \E c \in sched.todo :
         LET ruleNodes == runSchedule(nodes, points, edges, edgePts, c,
                                      Cardinality(ParentIDs) + 2)
         IN sched' = [sched EXCEPT !.todo = @ \ {c}, !.swept = @ \cup ruleNodes,
                                   !.eval = ruleNodes,
                                   !.seen = IF ruleNodes = {} THEN NoRules ELSE rules]
    /\ UNCHANGED <<storeVars, ruleVars, notified, auth, serial, messaged, upd, startup, page>>

\* processRuleNode for the sweep, after its reads: the rule as read takes the
\* trigger point, and the actions run on a change.
RunScheduleProcess ==
    /\ sched.pc = "sweep"
    /\ sched.eval # {}
    /\ LET p == [type |-> PointTypeTrigger, time |-> now, value |-> 0]
       IN rules' = processRuleNodes(nodes, points, edges, edgePts, sched.seen,
                                    sched.eval, "", <<p>>, now)
    /\ ruleFresh' = TRUE
    /\ sched' = [sched EXCEPT !.eval = {}, !.seen = NoRules]
    /\ UNCHANGED <<storeVars, now, notified, auth, serial, messaged, upd, startup, page>>

\* The end of the sweep: t.Reset, back to the select.
EndSweep ==
    /\ sched.pc = "sweep"
    /\ sched.todo = {}
    /\ sched.eval = {}
    /\ sched' = [sched EXCEPT !.pc = "select", !.timer = "armed", !.complete = TRUE]
    /\ UNCHANGED <<storeVars, ruleVars, notified, auth, serial, messaged, upd, startup, page>>

\* Time passes.
Tick ==
    /\ now < MaxNow
    /\ now' = now + 1
    /\ UNCHANGED <<nodes, points, edges, edgePts, lock, pc, cur, out, upstream, bus,
                   resp, firstAt, acked, rules, ruleFresh, svcVars>>

RulePointMsgs ==
    {NodeMsg(n, <<[type |-> PointTypeValue, time |-> 1, value |-> v]>>, "", TRUE) :
         n \in {"a", "b"}, v \in Values}
RuleEdgeMsgs ==
    {EdgeMsg("c2", "rule1", <<p>>, "", TRUE) : p \in EdgePoints}

NextRule ==
    \/ \E h \in Handlers : Lock(h)
    \/ \E h \in Handlers : Unlock(h)
    \/ HandleNodePoints(RulePointMsgs, {ErrNil})
    \/ HandleEdgePoints(RuleEdgeMsgs)
    \/ Tick
SpecRule == InitRule /\ [][NextRule]_vars

\* The actions of the rule: condition c2 can be deleted, so that the values sent to
\* "a" alone switch the rule, and the edge from the rule to its action is deleted
\* and restored, so that the action can miss a reset.
ActionPointMsgs ==
    {NodeMsg("a", <<[type |-> PointTypeValue, time |-> 1, value |-> v]>>, "", TRUE) :
         v \in Values}
ActionEdgeMsgs ==
    {EdgeMsg("c2", "rule1", <<[type |-> PointTypeTombstone, time |-> 1, value |-> 1]>>,
             "", TRUE)}
    \cup {EdgeMsg("act", "rule1", <<p>>, "", TRUE) : p \in EdgePoints}

NextAction ==
    \/ \E h \in Handlers : Lock(h)
    \/ \E h \in Handlers : Unlock(h)
    \/ HandleNodePoints(ActionPointMsgs, {ErrNil})
    \/ HandleEdgePoints(ActionEdgeMsgs)
    \/ Tick
SpecAction == InitRule /\ [][NextAction]_vars

\* Notifications: group "b" and device "a" are under the root node, user u1 is in
\* group "b" and user u2 under the root node. The device is put into the group as
\* well and deleted from the root node; u1 is put under the root node as well and
\* deleted from the group.
NotifyTree ==
    {<<"root", RootID>>, <<RootID, "a">>, <<RootID, "b">>, <<"b", "u1">>,
     <<RootID, "u2">>}
InitNotify ==
    /\ nodes = {e[2] : e \in NotifyTree}
    /\ points = [id \in {e[2] : e \in NotifyTree} |-> NoNodePoints]
    /\ edges = NotifyTree
    /\ edgePts = [e \in NotifyTree |-> NoEdgePoints]
    /\ lock = ""
    /\ pc = [h \in Handlers |-> "idle"]
    /\ cur = NoCur
    /\ out = <<>>
    /\ upstream = NoRuns
    /\ bus = {}
    /\ resp = NoResp
    /\ firstAt = [id \in NodeIDs |-> [t \in Times |-> 0]]
    /\ acked = [id \in NodeIDs |-> NoPoint]
    /\ now = 1
    /\ rules = NoRules
    /\ ruleFresh = FALSE
    /\ notified = NoNotified
    /\ auth = NoAuth
    /\ serial = NoSerial
    /\ messaged = NoMessaged
    /\ sched = NoSched
    /\ upd = NoUpd
    /\ startup = Started
    /\ page = defaultModel
NotifyEdgeMsgs ==
    {EdgeMsg(e[1], e[2], <<[type |-> PointTypeTombstone, time |-> 1,
                           value |-> e[3]]>>, "", TRUE) :
         e \in {<<"a", "b", 0>>, <<"a", RootID, 1>>, <<"u1", RootID, 0>>,
                <<"u1", "b", 1>>}}
NotifyIDs == {"a", "b", RootID, "u1", "u2", "gone"}

NextNotify ==
    \/ Lock("ep")
    \/ Unlock("ep")
    \/ HandleEdgePoints(NotifyEdgeMsgs)
    \/ HandleNotification(NotifyIDs)
SpecNotify == InitNotify /\ [][NextNotify]_vars

\* Log in: requests of every shape, with the email of u1 or an unknown one and the
\* password of u1 or a wrong one, over the store that holds the users.
AuthReqs ==
    {AuthReq(d, "-", "-") : d \in {"none", "garbage"}}
    \cup {AuthReq("points", e, p) :
              e \in {"-", UserEmail("u1"), "nobody@example.com"},
              p \in {"-", UserPass("u1"), "bad"}}
NextAuth ==
    \/ HandleAuthUser(AuthReqs)
    \/ Lock("ep")
    \/ Unlock("ep")
    \/ HandleEdgePoints(NotifyEdgeMsgs)
SpecAuth == InitNotify /\ [][NextAuth]_vars

\* The serial port: the device side writes log lines and points packets for node
\* "a" with any sequence number.
SerialPackets ==
    {LogPacket}
    \cup {SerialPacket(q, SubjectNodePoints("a"),
                       <<[type |-> PointTypeUptime, time |-> 0, value |-> v]>>) :
              q \in SerialSeqs, v \in Values}
NextSerial ==
    \/ DeviceWrite(SerialPackets)
    \/ SerialRead
    \/ SerialApply
    \/ SerialAck
SpecSerial == Init /\ [][NextSerial]_vars

\* Upstream propagation: the tree changes under the writers. Device "a" is put
\* under group "b" as well and deleted from and restored to the root node; the rule
\* is put under "a" and under "b" and deleted from the root node. The values sent
\* meet no condition.
UpstreamPointMsgs ==
    {NodeMsg(n, <<[type |-> PointTypeValue, time |-> 1, value |-> 1]>>, "", TRUE) :
         n \in NodeIDs}
UpstreamEdgeMsgs ==
    {EdgeMsg(e[1], e[2], <<[type |-> PointTypeTombstone, time |-> e[3],
                           value |-> e[4]]>>, "", TRUE) :
         e \in {<<"a", "b", 1, 0>>, <<"a", RootID, 1, 1>>, <<"a", RootID, 2, 0>>,
                <<"rule1", "a", 1, 0>>, <<"rule1", "b", 1, 0>>,
                <<"rule1", RootID, 1, 1>>}}

NextUpstream ==
    \/ \E h \in Handlers : Lock(h)
    \/ \E h \in Handlers : Unlock(h)
    \/ HandleNodePoints(UpstreamPointMsgs, {ErrNil})
    \/ HandleEdgePoints(UpstreamEdgeMsgs)
SpecUpstream == InitRule /\ [][NextUpstream]_vars

\* Messages: device "a" and group "b" are under the root node, user u1 is in group
\* "b" and user u2 under the root node; the twilio service is a child of the root
\* node, the smtp service a child of the group. The device is put into the group as
\* well, the group is deleted from the root node, the twilio service is put into
\* the group as well, u1 is put under the root node as well. Messages for u1
\* arrive via the group or via the root node, with a phone number, an email
\* address, both or none; notifications are published on the device.
MessageTree ==
    {<<"root", RootID>>, <<RootID, "a">>, <<RootID, "b">>, <<"b", "u1">>,
     <<RootID, "u2">>, <<RootID, "tw">>, <<"b", "sm">>}
InitMessage ==
    /\ nodes = {e[2] : e \in MessageTree}
    /\ points = [id \in {e[2] : e \in MessageTree} |-> NoNodePoints]
    /\ edges = MessageTree
    /\ edgePts = [e \in MessageTree |-> NoEdgePoints]
    /\ lock = ""
    /\ pc = [h \in Handlers |-> "idle"]
    /\ cur = NoCur
    /\ out = <<>>
    /\ upstream = NoRuns
    /\ bus = {}
    /\ resp = NoResp
    /\ firstAt = [id \in NodeIDs |-> [t \in Times |-> 0]]
    /\ acked = [id \in NodeIDs |-> NoPoint]
    /\ now = 1
    /\ rules = NoRules
    /\ ruleFresh = FALSE
    /\ notified = NoNotified
    /\ auth = NoAuth
    /\ serial = NoSerial
    /\ messaged = NoMessaged
    /\ sched = NoSched
    /\ upd = NoUpd
    /\ startup = Started
    /\ page = defaultModel
MessageEdgeMsgs ==
    {EdgeMsg(e[1], e[2], <<[type |-> PointTypeTombstone, time |-> 1,
                           value |-> e[3]]>>, "", TRUE) :
         e \in {<<"a", "b", 0>>, <<"b", RootID, 1>>, <<"tw", "b", 0>>,
                <<"u1", RootID, 0>>}}
MessageMsgs ==
    {Message("u1", p, ph, em, TRUE) :
         p \in {"b", RootID}, ph \in {"", UserPhone("u2")}, em \in {"", UserEmail("u1")}}
    \cup {Message("u1", "b", "", "", FALSE)}
NextMessage ==
    \/ Lock("ep")
    \/ Unlock("ep")
    \/ HandleEdgePoints(MessageEdgeMsgs)
    \/ HandleNotification({"a"})
    \/ HandleMessage(MessageMsgs)
SpecMessage == InitMessage /\ [][NextMessage]_vars

\* The schedule sweeper: the store of the rule engine; the rule is put under the
\* device "a" and under the group "b", deleted from the root node and restored
\* to it, while the loop of Start sweeps and the store is stopped at any time.
SchedEdgeMsgs ==
    {EdgeMsg(e[1], e[2], <<[type |-> PointTypeTombstone, time |-> e[3],
                           value |-> e[4]]>>, "", TRUE) :
         e \in {<<"rule1", "a", 1, 0>>, <<"rule1", "b", 1, 0>>,
                <<"rule1", RootID, 1, 1>>, <<"rule1", RootID, 2, 0>>}}
NextSched ==
    \/ Lock("ep")
    \/ Unlock("ep")
    \/ HandleEdgePoints(SchedEdgeMsgs)
    \/ Tick
    \/ TimerFire
    \/ StartSweep
    \/ RunSchedule
    \/ RunScheduleProcess
    \/ EndSweep
    \/ Stop
    \/ StartStopped
\* The loop runs when it can; the select takes a ready case at random, so the stop
\* case is taken at last even if the timer is ready again and again.
SpecSched ==
    /\ InitRule
    /\ [][NextSched]_vars
    /\ WF_vars(TimerFire)
    /\ WF_vars(StartSweep)
    /\ WF_vars(RunSchedule)
    /\ WF_vars(RunScheduleProcess)
    /\ WF_vars(EndSweep)
    /\ SF_vars(StartStopped)

\* Software updates beside the writers: two callers of StartUpdate for the devices
\* "a" and "b", while a point is written to "a" and its edge is deleted.
UpdatePointMsgs ==
    {NodeMsg("a", <<[type |-> PointTypeValue, time |-> 1, value |-> 1]>>, Inbox, TRUE)}
UpdateEdgeMsgs ==
    {EdgeMsg("a", "r", <<[type |-> PointTypeTombstone, time |-> 1, value |-> 1]>>,
             Inbox, TRUE)}
NextUpdate ==
    \/ \E h \in Handlers : Lock(h)
    \/ \E h \in Handlers : Unlock(h)
    \/ HandleNodePoints(UpdatePointMsgs, {ErrNil})
    \/ HandleEdgePoints(UpdateEdgeMsgs)
    \/ \E u \in Updaters : UpdLock(u)
    \/ \E u \in Updaters : StartUpdate(u)
    \/ \E u \in Updaters : UpdUnlock(u)
    \/ \E d \in UpdateIDs : UpdateDoneLock(d)
    \/ \E d \in UpdateIDs : UpdateDone(d)
SpecUpdate == Init /\ [][NextUpdate]_vars

\* Failures on the way up: values are written to the device "a" below the rule
\* of InitRule, with and without a reply subject, while a Db read, the evaluation
\* of the rule, the dispatch of its action or a sink write may fail; condition c2
\* can be deleted, so that the values sent to "a" alone switch the rule.
UpErrPointMsgs ==
    {NodeMsg("a", <<[type |-> PointTypeValue, time |-> 1, value |-> v]>>, r, TRUE) :
         v \in Values, r \in Replies}
UpErrEdgeMsgs ==
    {EdgeMsg("c2", "rule1", <<[type |-> PointTypeTombstone, time |-> 1, value |-> 1]>>,
             "", TRUE)}
NextUpErr ==
    \/ \E h \in Handlers : Lock(h)
    \/ \E h \in Handlers : Unlock(h)
    \/ HandleNodePoints(UpErrPointMsgs, UpErrs)
    \/ HandleEdgePoints(UpErrEdgeMsgs)
SpecUpErr == InitRule /\ [][NextUpErr]_vars

\* Start and two callers of WaitStart, each with a context that may end.
NextStart ==
    \/ Subscribe
    \/ NewMetrics
    \/ StartLock
    \/ SetStarted
    \/ \E w \in Waiters : WaitStartLock(w)
    \/ \E w \in Waiters : WaitStart(w)
    \/ \E w \in Waiters : WaitStartSelect(w)
    \/ \E w \in Waiters : CtxDone(w)
InitStart ==
    /\ nodes = {RootID}
    /\ points = (RootID :> NoNodePoints)
    /\ edges = {<<"root", RootID>>}
    /\ edgePts = (<<"root", RootID>> :> NoEdgePoints)
    /\ lock = ""
    /\ pc = [h \in Handlers |-> "idle"]
    /\ cur = NoCur
    /\ out = <<>>
    /\ upstream = NoRuns
    /\ bus = {}
    /\ resp = NoResp
    /\ firstAt = [id \in NodeIDs |-> [t \in Times |-> 0]]
    /\ acked = [id \in NodeIDs |-> NoPoint]
    /\ now = 1
    /\ rules = NoRules
    /\ ruleFresh = FALSE
    /\ notified = NoNotified
    /\ auth = NoAuth
    /\ serial = NoSerial
    /\ messaged = NoMessaged
    /\ sched = NoSched
    /\ upd = NoUpd
    /\ startup = NoStart
    /\ page = defaultModel
SpecStart ==
    /\ InitStart
    /\ [][NextStart]_vars
    /\ WF_vars(NewMetrics)
    /\ WF_vars(StartLock)
    /\ WF_vars(SetStarted)
    /\ \A w \in Waiters : WF_vars(WaitStart(w)) /\ WF_vars(WaitStartSelect(w))

\* The sweeper beside the writers: values are written to the device "a" and
\* condition c2 is deleted, so that the values sent to "a" alone switch the rule,
\* while the loop of Start sweeps.
RaceEdgeMsgs ==
    {EdgeMsg("c2", "rule1", <<[type |-> PointTypeTombstone, time |-> 1, value |-> 1]>>,
             "", TRUE)}
NextRace ==
    \/ \E h \in Handlers : Lock(h)
    \/ \E h \in Handlers : Unlock(h)
    \/ HandleNodePoints(ActionPointMsgs, {ErrNil})
    \/ HandleEdgePoints(RaceEdgeMsgs)
    \/ TimerFire
    \/ StartSweep
    \/ RunSchedule
    \/ RunScheduleProcess
    \/ EndSweep
SpecRace == InitRule /\ [][NextRace]_vars

\* The two points handlers with their queues: points are written to the device
\* "a", which is created without parent edge, and its edge to the root node is
\* written, deleted and restored, so that the store sends both kinds of repair.
LivePointMsgs ==
    {NodeMsg("a", <<[type |-> PointTypeValue, time |-> 1, value |-> 1]>>, Inbox, TRUE)}
LiveEdgeMsgs ==
    {EdgeMsg("a", RootID, <<[type |-> PointTypeTombstone, time |-> t, value |-> v]>>,
             "", TRUE) : t \in {1, 2}, v \in {0, 1}}
\* The edge points the store can send to itself.
RepairMsgs == {SendEdgePoint("a", p) : p \in {"none", RootID}}
\* handleEdgePoints takes the queued message m.
Delivered(m) ==
    /\ m \in bus
    /\ HandleEdgePoints(LiveEdgeMsgs)
    /\ bus' = bus \ {m}
NextLive ==
    \/ \E h \in Handlers : Lock(h)
    \/ \E h \in Handlers : Unlock(h)
    \/ HandleNodePoints(LivePointMsgs, {ErrNil})
    \/ HandleEdgePoints(LiveEdgeMsgs)
\* A handler that runs goes on to its return; the subscription of the edge points
\* gets the lock at last (a waiter of a sync.Mutex is not starved) and hands
\* over every message of its queue at last (the queue is served in order).
SpecLive ==
    /\ Init
    /\ [][NextLive]_vars
    /\ \A h \in Handlers : WF_vars(Unlock(h))
    /\ WF_vars(HandleNodePoints(LivePointMsgs, {ErrNil}))
    /\ WF_vars(HandleEdgePoints(LiveEdgeMsgs))
    /\ SF_vars(Lock("ep"))
    /\ \A m \in RepairMsgs : SF_vars(Delivered(m))

\* Start beside the writers: a point is written to the device "a" and its edge to
\* the root node is deleted, as soon as Start has subscribed the handlers.
EarlyPointMsgs ==
    {NodeMsg("a", <<[type |-> PointTypeValue, time |-> 1, value |-> 1]>>, Inbox, TRUE)}
EarlyEdgeMsgs ==
    {EdgeMsg("a", RootID, <<[type |-> PointTypeTombstone, time |-> 1, value |-> 1]>>,
             "", TRUE)}
NextEarly ==
    \/ Subscribe
    \/ NewMetrics
    \/ StartLock
    \/ SetStarted
    \/ \E h \in Handlers : Lock(h)
    \/ \E h \in Handlers : Unlock(h)
    \/ HandleNodePoints(EarlyPointMsgs, {ErrNil})
    \/ HandleEdgePoints(EarlyEdgeMsgs)
SpecEarly == InitStart /\ [][NextEarly]_vars

\* Deleted edges on the three ways up: the store of the rule engine with user u1
\* and the smtp service in group "b", user u2 and the twilio service under the
\* root node. Device "a" is put under the group as well and deleted from the root
\* node, the group is deleted from the root node, u1 is deleted from the group.
\* Values are written to "a", notifications are published on "a", and messages
\* for u1 arrive via the group, which was its parent when they were made.
TombTree ==
    RuleTree \cup {<<"b", "u1">>, <<RootID, "u2">>, <<RootID, "tw">>, <<"b", "sm">>}
InitTomb ==
    /\ nodes = {e[2] : e \in TombTree}
    /\ points = [id \in {e[2] : e \in TombTree} |-> NoNodePoints]
    /\ edges = TombTree
    /\ edgePts = [e \in TombTree |-> NoEdgePoints]
    /\ lock = ""
    /\ pc = [h \in Handlers |-> "idle"]
    /\ cur = NoCur
    /\ out = <<>>
    /\ upstream = NoRuns
    /\ bus = {}
    /\ resp = NoResp
    /\ firstAt = [id \in NodeIDs |-> [t \in Times |-> 0]]
    /\ acked = [id \in NodeIDs |-> NoPoint]
    /\ now = 1
    /\ rules = NoRules
    /\ ruleFresh = FALSE
    /\ notified = NoNotified
    /\ auth = NoAuth
    /\ serial = NoSerial
    /\ messaged = NoMessaged
    /\ sched = NoSched
    /\ upd = NoUpd
    /\ startup = Started
    /\ page = defaultModel
TombPointMsgs ==
    {NodeMsg("a", <<[type |-> PointTypeValue, time |-> 1, value |-> 1]>>, "", TRUE)}
TombEdgeMsgs ==
    {EdgeMsg(e[1], e[2], <<[type |-> PointTypeTombstone, time |-> 1,
                           value |-> e[3]]>>, "", TRUE) :
         e \in {<<"a", "b", 0>>, <<"a", RootID, 1>>, <<"b", RootID, 1>>,
                <<"u1", "b", 1>>}}
TombMsgs == {Message("u1", "b", "", UserEmail("u1"), TRUE)}
NextTomb ==
    \/ \E h \in Handlers : Lock(h)
    \/ \E h \in Handlers : Unlock(h)
    \/ HandleNodePoints(TombPointMsgs, {ErrNil})
    \/ HandleEdgePoints(TombEdgeMsgs)
    \/ HandleNotification({"a"})
    \/ HandleMessage(TombMsgs)
SpecTomb == InitTomb /\ [][NextTomb]_vars

\* The nodes page: node lists arrive, the user opens and closes the details of
\* node views, edits and copies them, and the clock ticks, a period or the age
\* of a node message after the Tick before.
backVars == <<storeVars, ruleVars, notified, auth, serial, messaged, sched, upd, startup>>
ApiRespList ==
    /\ \E sizes \in NodeLists : page' = updateApiRespList(page, sizes)
    /\ UNCHANGED backVars
ToggleExpDetail ==
    /\ \E n \in NodeViews(page.nodes) :
          page' = updateToggleExpDetail(page, FeID(page.nodes, n))
    /\ UNCHANGED backVars
EditNodePoint ==
    /\ \E n \in NodeViews(page.nodes) :
          page' = updateEditNodePoint(page, FeID(page.nodes, n))
    /\ UNCHANGED backVars
CopyNode ==
    /\ \E n \in NodeViews(page.nodes) :
          page' = updateCopyNode(page, FeID(page.nodes, n))
    /\ UNCHANGED backVars
PageTick ==
    /\ page.now < MaxTicks * TickMs
    /\ \E d \in {NodeMsgMs, TickMs} : page' = updateTick(page, page.now + d)
    /\ UNCHANGED backVars
\* Front-end IDs: node lists, toggles and edits.
NextFeID ==
    \/ ApiRespList
    \/ ToggleExpDetail
    \/ EditNodePoint
SpecFeID == Init /\ [][NextFeID]_vars
\* The node message: node lists, copies and the clock.
NextNodeMsg ==
    \/ ApiRespList
    \/ CopyNode
    \/ PageTick
SpecNodeMsg == Init /\ [][NextNodeMsg]_vars

\* Orphan repair alone: writers create device "a" and group "b" by point writes and
\* send no edge points; every edge point handled is one the store sent itself.
OrphanPointMsgs ==
    {NodeMsg(n, <<p>>, r, TRUE) : n \in {"a", "b"}, p \in NodePoints, r \in Replies}
NextOrphan ==
    \/ \E h \in Handlers : Lock(h)
    \/ \E h \in Handlers : Unlock(h)
    \/ HandleNodePoints(OrphanPointMsgs, {ErrNil})
    \/ HandleEdgePoints({})
SpecOrphan == Init /\ [][NextOrphan]_vars

\* ------------------------------------------------------------------ claims
\* C1: last-writer-wins. In every reachable state, the ("value", "") slot of every
\* node holds the point of greatest time ever handed to the Db for that slot, and
\* among the points of that greatest time the one written first: a point replaces
\* the stored one only when its time is strictly greater, an equal or older one
\* leaves the slot as it is.
C1_LastWriterWins ==
    \A id \in NodeIDs :
        LET ts == {t \in Times : firstAt[id][t] # 0}
        IN (IF id \in nodes THEN points[id][PointTypeValue] ELSE NoPoint) =
               IF ts = {} THEN NoPoint
               ELSE [time |-> Max(ts), value |-> firstAt[id][Max(ts)]]

\* C1 witness: handleNodePoints stored a batch holding a point that was not newer
\* than the stored one, and the slot still holds the newest time written.
C1_Witness ==
    /\ pc["np"] = "done"
    /\ cur.result = "ok"
    /\ cur.stale = "some"
    /\ points["a"][PointTypeValue].time = MaxTime
    /\ firstAt["a"][1] # 0
    /\ firstAt["a"][MaxTime] # 0

\* C2: point merge is idempotent. From every reachable store state, merging any
\* batch into any node, or into any edge, and then merging the same batch again
\* gives the state (and the error) of the first merge.
C2_MergeIdempotent ==
    /\ \A id \in NodeIDs, b \in SeqsUpTo(NodePoints, MaxBatch) :
          LET w1 == DbNodePoints(nodes, points, id, b, FALSE)
              w2 == DbNodePoints(w1.nodes, w1.points, id, b, FALSE)
          IN w2 = w1
    /\ \A id \in NodeIDs, parent \in ParentIDs, b \in SeqsUpTo(EdgePoints, MaxBatch) :
          LET w1 == DbEdgePoints(edges, edgePts, id, parent, b, FALSE)
              w2 == DbEdgePoints(w1.edges, w1.edgePts, id, parent, b, FALSE)
          IN w2 = w1

\* C2 witness: a batch none of whose points was newer than the stored one (as when
\* a batch is delivered again) was merged into an existing node, and an edge point
\* was merged into an existing edge.
C2_Witness ==
    /\ pc["np"] = "done"
    /\ cur.result = "ok"
    /\ cur.stale = "all"
    /\ <<"r", "a">> \in edges
    /\ edgePts[<<"r", "a">>][PointTypeTombstone].time = MaxTime

\* A node all of whose parent edges are tombstoned (a deleted node).
Deleted(id) ==
    LET ups == DbEdgeUp(edges, edgePts, id, TRUE)
    IN ups # {} /\ \A e \in ups : IsTombstone(edgePts, e)

\* C5 as stated: once a write of point p to node N was ACKed, a request node.N with
\* parent "all" returns N holding p, unless the slot holds a strictly newer point.
C5_ReadYourWrites ==
    \A id \in NodeIDs :
        acked[id].time > 0 =>
            \E n \in handleNode(id, "all").nodes :
                /\ n.id = id
                /\ \/ n.points[PointTypeValue] = acked[id]
                   \/ n.points[PointTypeValue].time > acked[id].time

\* C5 amended: once a write of point p to node N was ACKed, a request node.N with
\* parent "all" made while N is not deleted (not all of its parent edges are
\* tombstoned) returns N, and every returned entry holds in p's slot a point that is
\* not older than p: the first point written to the slot with that time.
C5_ReadYourWritesLive ==
    \A id \in NodeIDs :
        (acked[id].time > 0 /\ ~Deleted(id)) =>
            LET r == handleNode(id, "all")
            IN /\ r.nodes # {}
               /\ \A n \in r.nodes :
                     /\ n.id = id
                     /\ n.points[PointTypeValue].time >= acked[id].time
                     /\ n.points[PointTypeValue].value =
                            firstAt[id][n.points[PointTypeValue].time]

\* C5 witness: a request node.a "all" answered with the ACKed point.
C5_Witness ==
    /\ acked["a"].time > 0
    /\ resp.op = "all"
    /\ resp.id = "a"
    /\ \E n \in resp.nodes : n.points[PointTypeValue] = acked["a"]

\* C3: cycle safety. In every reachable state no edge record closes a cycle: the
\* parent of an edge is never downstream of its child. No cycle at all, hence none
\* reachable from the root.
C3_NoCycle ==
    \A e \in edges : e[1] \notin Downstream(edges, {e[2]})

\* C3 witness: the tree r -> a -> b stands and an edge write that would have closed
\* a cycle has just been handled.
C3_Witness ==
    /\ pc["ep"] = "done"
    /\ cur.cycle
    /\ {<<"r", "a">>, <<"a", "b">>} \subseteq edges

\* The step in which handler h runs its body on one message.
Handled(h) == pc[h] = "locked" /\ pc'[h] = "done" /\ cur'.handler = h

\* C4: cycle rejection. Whenever handleEdgePoints handles a decodable write whose
\* proposed parent is the child itself or lies downstream of it, the Db (nodes,
\* points, edges, edge points) is left as it was and, when a reply subject is
\* given, the first reply published on it is a non-empty error string.
C4_CycleRejected ==
    [][(Handled("ep") /\ cur'.cycle) =>
          /\ dbVars' = dbVars
          /\ cur'.reply # "" => (out' # <<>> /\ Head(out') # "")]_vars

\* C4 witness: with r -> a -> b in the store, a write proposing a parent downstream
\* of the child was handled without a Db failure and answered.
C4_Witness ==
    /\ pc["ep"] = "done"
    /\ cur.cycle
    /\ ~cur.failed
    /\ cur.reply # ""
    /\ out # <<>>
    /\ {<<"r", "a">>, <<"a", "b">>} \subseteq edges

\* C6: tombstone opacity. In every reachable state, for every node id, no entry of
\* the answer to node.<id>.children with includeDel = false (any type filter) and
\* no entry of the answer to node.<id> with parent "all" comes through a tombstoned
\* edge.
C6_TombstoneOpacity ==
    /\ \A id \in ParentIDs, typ \in {"", "device", "group"} :
          \A n \in handleNodeChildren(id, typ, FALSE).nodes :
              ~IsTombstone(edgePts, <<n.parent, n.id>>)
    /\ \A id \in NodeIDs :
          \A n \in handleNode(id, "all").nodes :
              n.parent # "" => ~IsTombstone(edgePts, <<n.parent, n.id>>)

\* C6 witness: b exists, its edge from a is tombstoned and its edge from r is not;
\* node.b "all" was answered with the entry under r only, and node.a.children
\* with includeDel = true does list b.
C6_Witness ==
    /\ "b" \in nodes
    /\ {<<"a", "b">>, <<"r", "b">>} \subseteq edges
    /\ IsTombstone(edgePts, <<"a", "b">>)
    /\ ~IsTombstone(edgePts, <<"r", "b">>)
    /\ resp.op = "all"
    /\ resp.id = "b"
    /\ {n.parent : n \in resp.nodes} = {"r"}
    /\ handleNodeChildren("a", "", TRUE).nodes # {}

\* C7: the writes are serialized. In every reachable state at most one of the two
\* points handlers is between its Lock and its Unlock.
C7_WritesSerialized ==
    ~(pc["np"] # "idle" /\ pc["ep"] # "idle")

\* C7 witness: handleNodePoints is inside the lock, has published an edge point
\* for handleEdgePoints, and handleEdgePoints has not started.
C7_Witness ==
    /\ pc["np"] = "done"
    /\ pc["ep"] = "idle"
    /\ bus # {}

\* C8: a message that does not decode never mutates state. Whenever either points
\* handler handles such a message, the Db is left as it was, no upstream
\* propagation runs and no edge point is sent, and what is published on the reply
\* subject is one non-empty error string, or nothing when there is no reply subject.
C8_DecodeErrorInert ==
    [][((Handled("np") \/ Handled("ep")) /\ ~cur'.valid) =>
          /\ dbVars' = dbVars
          /\ upstream' = NoRuns
          /\ bus' = bus
          /\ IF cur'.reply = "" THEN out' = <<>>
             ELSE Len(out') = 1 /\ out'[1] # ""]_vars

\* C8 witness: an undecodable edge points message with a reply subject was handled
\* while the store held a tree.
C8_Witness ==
    /\ pc["ep"] = "done"
    /\ ~cur.valid
    /\ cur.reply # ""
    /\ <<"r", "a">> \in edges

\* The mutation of the handled message was applied.
Applied == cur.valid /\ ~cur.failed /\ ~cur.cycle

\* C9: reply convention. When a points handler is done with a message, it has
\* published nothing if the message had no reply subject, and otherwise exactly one
\* reply, which is the empty string iff the mutation was applied.
C9_ReplyConvention ==
    (cur.handler # "" /\ pc[cur.handler] = "done") =>
        IF cur.reply = "" THEN out = <<>>
        ELSE Len(out) = 1 /\ (out[1] = "" <=> Applied)
\* The condition nodes the rule has now: its live condition children.
RuleConditions(ruleID) ==
    ruleChildren(nodes, points, edges, edgePts, ruleID, "condition", FALSE)

Evaluated(r) ==
    /\ pc["np"] = "locked"
    /\ pc'["np"] = "done"
    /\ r \in cur'.ruleNodes

\* The live action and actionInactive children of a rule.
RuleActions(ruleID) ==
    ruleChildren(nodes, points, edges, edgePts, ruleID, "action", FALSE)
RuleActionsInactive(ruleID) ==
    ruleChildren(nodes, points, edges, edgePts, ruleID, "actionInactive", FALSE)

C12_DispatchSets ==
    [][\A r \in RuleIDs :
          Evaluated(r) =>
              /\ (~rules.active[r] /\ rules'.active[r]) =>
                     /\ rules'.ran = RuleActions(r)
                     /\ rules'.reset = RuleActionsInactive(r)
                     /\ \A x \in RuleActionsInactive(r) : rules'.lastSent[x] = 0
              /\ (rules.active[r] /\ ~rules'.active[r]) =>
                     /\ rules'.ran = RuleActionsInactive(r)
                     /\ rules'.reset = RuleActions(r)
                     /\ \A x \in RuleActions(r) : rules'.lastSent[x] = 0
              /\ (rules.active[r] <=> rules'.active[r]) =>
                     /\ rules'.ran = {}
                     /\ rules'.reset = {}
                     /\ rules'.lastSent = rules.lastSent
              /\ ~(rules'.ran \cap ActionIDs # {}
                    /\ rules'.ran \cap ActionInactiveIDs # {})
              /\ rules'.fired \subseteq rules'.ran]_vars

\* C12 witness: an evaluation changed the rule to inactive, ran the inactive
\* action and reset the action.
C12_Witness ==
    /\ pc["np"] = "done"
    /\ "rule1" \in cur.ruleNodes
    /\ ~rules.active["rule1"]
    /\ rules.ran = {"actIn"}
    /\ rules.fired = {"actIn"}
    /\ rules.reset = {"act"}

\* C13: an action is published by an evaluation only if it was never sent (or was
\* reset since) or its repeatPeriod has passed since lastSent, and every
\* publication stamps lastSent; so an action that was not reset is never published
\* twice less than repeatPeriod apart.
C13_RateLimit ==
    [][\A r \in RuleIDs :
          Evaluated(r) =>
              \A x \in rules'.fired :
                  /\ rules.lastSent[x] = 0
                     \/ now - rules.lastSent[x] >= ActionRepeatPeriod(x)
                  /\ rules'.lastSent[x] = now]_vars

\* C13 witness: the rule changed to active less than repeatPeriod after its action
\* was sent and without a reset in between; the action ran and did not publish.
C13_Witness ==
    /\ pc["np"] = "done"
    /\ "rule1" \in cur.ruleNodes
    /\ rules.active["rule1"]
    /\ "act" \in rules.ran
    /\ "act" \notin rules.fired
    /\ rules.lastSent["act"] # 0
    /\ now - rules.lastSent["act"] < ActionRepeatPeriod("act")

\* C14: an evaluation whose points meet the predicate of a condition sets
\* activeStart if it is clear and leaves the condition active iff minActive has
\* passed since activeStart; an evaluation whose point fails the predicate makes
\* the condition inactive at once and clears activeStart, so that the span starts
\* anew; an active condition always has its activeStart.
C14_ConditionHysteresis ==
    [][\A r \in RuleIDs :
          Evaluated(r) =>
              \A c \in RuleConditions(r) :
                  LET start == IF rules.condStart[c] = 0 THEN now
                               ELSE rules.condStart[c]
                  IN /\ cur'.met[c] = "met" =>
                         /\ rules'.condStart[c] = start
                         /\ rules'.condActive[c] <=> now - start >= CondMinActive(c)
                     /\ cur'.met[c] = "failed" =>
                         /\ ~rules'.condActive[c]
                         /\ rules'.condStart[c] = 0
                     /\ cur'.met[c] = "none" =>
                         /\ rules'.condActive[c] = rules.condActive[c]
                         /\ rules'.condStart[c] = rules.condStart[c]
                     /\ rules'.condActive[c] => rules'.condStart[c] # 0]_vars

\* C14 witness: condition c2 (minActive 2) met at time 1 is active by an
\* evaluation at time 3.
C14_Witness ==
    /\ pc["np"] = "done"
    /\ "rule1" \in cur.ruleNodes
    /\ cur.met["c2"] = "met"
    /\ rules.condActive["c2"]
    /\ rules.condStart["c2"] = 1
    /\ now = 1 + CondMinActive("c2")

\* The nodes of S and their ancestors: what the parent edges lead to, the deleted
\* edges left out unless includeDel.
RECURSIVE Ancestors(_, _)
Ancestors(S, includeDel) ==
    LET up == {e[1] : e \in UNION {DbEdgeUp(edges, edgePts, id, includeDel) : id \in S}}
    IN IF up \subseteq S THEN S ELSE Ancestors(S \cup up, includeDel)

\* The live rule children of the nodes of S.
RulesUnder(S) ==
    UNION {ruleChildren(nodes, points, edges, edgePts, id, "rule", FALSE) : id \in S}

\* C15: when handleNodePoints has written the points of a message to node N, it
\* has evaluated every rule that is a direct child of N or of an ancestor of N
\* (and no rule but those the parent edges of N, deleted ones included, lead to).
C15_RulesOfAncestors ==
    (pc["np"] = "done" /\ cur.result = "ok") =>
        /\ RulesUnder(Ancestors({cur.node}, FALSE)) \subseteq cur.ruleNodes
        /\ cur.ruleNodes \subseteq RulesUnder(Ancestors({cur.node}, TRUE))

\* C15 witness: points written to "a", whose only live parent is "b", reached the
\* rule that is a child of the root node alone.
C15_Witness ==
    /\ pc["np"] = "done"
    /\ cur.result = "ok"
    /\ cur.node = "a"
    /\ DbEdgeUp(edges, edgePts, "a", FALSE) = {<<"b", "a">>}
    /\ DbEdgeUp(edges, edgePts, "rule1", TRUE) = {<<RootID, "rule1">>}
    /\ ~IsTombstone(edgePts, <<RootID, "rule1">>)
    /\ cur.ruleNodes = {"rule1"}

\* C16: for a notification on a node that is no user node, every user the walk
\* found has exactly one message on node.<userID>.msg.
C16_OncePerUser ==
    notified.walked => \A u \in notified.found : notified.sent[u] = 1

\* C17: for a notification on a user node no walk is made and at most one message
\* is published, to that user.
C17_UserNodeOnly ==
    (notified.valid /\ NodeTypeOf(notified.id) = "user") =>
        /\ ~notified.walked
        /\ \A u \in UserIDs :
              notified.sent[u] <= (IF u = notified.id THEN 1 ELSE 0)

\* C17 witness: a notification on user u1, which has a group and the root node
\* with another user above it, was published to u1 alone.
C17_Witness ==
    /\ notified.valid
    /\ notified.id = "u1"
    /\ notified.sent = [u \in UserIDs |-> IF u = "u1" THEN 1 ELSE 0]
    /\ DbEdgeUp(edges, edgePts, "u1", FALSE) = {<<"b", "u1">>, <<RootID, "u1">>}
    /\ ~IsTombstone(edgePts, <<RootID, "u2">>)

\* The credentials of a request are those of a user of the store.
CredentialsOK(req) ==
    /\ req.data = "points"
    /\ \E u \in UserIDs \cap nodes :
          UserEmail(u) = req.email /\ UserPass(u) = req.pass

\* C18: every failed auth.user request (no data, undecodable data, no email point,
\* no pass point, unknown email, wrong password, failed token creation) is
\* answered with the same, empty payload; nodes are returned only after a
\* successful credential check, and then they are the user node and a jwt node
\* that carries the token.
C18_AuthFailuresAlike ==
    auth.handled =>
        /\ (~CredentialsOK(auth.req) \/ auth.tokenFail) => auth.payload = NoPayload
        /\ auth.payload.nodes # <<>> =>
              /\ CredentialsOK(auth.req)
              /\ Len(auth.payload.nodes) = 2
              /\ auth.payload.nodes[1].type = "user"
              /\ UserEmail(auth.payload.nodes[1].id) = auth.req.email
              /\ auth.payload.nodes[2].type = "jwt"
              /\ auth.payload.nodes[2].token # ""
        /\ (CredentialsOK(auth.req) /\ ~auth.tokenFail /\ ~auth.encFail)
              => auth.payload.nodes # <<>>

\* C18 witness: the email of u1 with a wrong password got the empty payload.
C18_Witness ==
    /\ auth.handled
    /\ auth.req = AuthReq("points", UserEmail("u1"), "bad")
    /\ auth.payload = NoPayload

C20_UpstreamBeforeReply ==
    (cur.handler \in {"np", "ep"} /\ pc[cur.handler] = "done" /\ Applied) =>
        \E i \in DOMAIN cur.steps :
            /\ cur.steps[i] = "upstream"
            /\ \A j \in DOMAIN cur.steps : cur.steps[j] = "reply" => i < j

\* C21: visited set. During the propagation of one points write every node is
\* processed as currentNodeID at most once, also when it is reachable from the
\* written node by several parent paths.
C21_VisitedOnce == \A id \in DOMAIN upstream : upstream[id] <= 1

\* C22: orphan repair. When handleEdgePoints has applied the repair edge point the
\* store sent for a device without live parent edge, the device has a live parent
\* edge again: the edge from the root node when it had no parent edge at all, one
\* of its former parent edges otherwise.
C22_OrphanRepaired ==
    [][(Handled("ep") /\ cur'.repair /\ ~cur'.failed) =>
          LET had == DbEdgeUp(edges, edgePts, cur'.node, TRUE)
              live == DbEdgeUp(edges', edgePts', cur'.node, FALSE)
          IN IF had = {} THEN <<RootID, cur'.node>> \in live
             ELSE live \cap had # {}]_vars

\* C23: every edge refers to existing nodes. The child of every edge record is a
\* node of the store, and so is its parent, but for the sentinel parent of the root
\* node.
C23_EdgesReferToNodes ==
    \A e \in edges :
        /\ e[2] \in nodes
        /\ e[1] \in nodes \/ e = <<"root", RootID>>

\* C24: for a message on node.<id>.msg every message service is used at most
\* once, however many times the walk found it.
C24_ServiceOnce ==
    messaged.valid =>
        /\ \A v \in ServiceIDs : messaged.sent[v] <= 1
        /\ \A v \in ServiceIDs : messaged.sent[v] = 1 => messaged.walked[v] >= 1

\* C24 witness: a message with a phone number, for which the walk found the twilio
\* service twice (in the group and in the root node above it) and used it once.
C24_Witness ==
    /\ messaged.valid
    /\ messaged.phone # ""
    /\ messaged.walked["tw"] = 2
    /\ messaged.sent["tw"] = 1

\* The live edges, and the nodes the walk may search for the node id reached via
\* parent: the node itself, the parent and the ancestors of the parent.
LiveEdges == {e \in edges : ~IsTombstone(edgePts, e)}
FirstLevel(id, parent) == {id} \cup Ancestors({parent}, FALSE)

\* C25: the walk follows, from the source node, only the parent the notification
\* or message arrived via. Every user selected for a notification and every service
\* selected for a message lies under the source node, under that parent or under
\* an ancestor of that parent.
C25_FirstLevelParentOnly ==
    [][/\ (notified' # notified /\ notified'.walked) =>
            notified'.found \subseteq
                Downstream(LiveEdges, FirstLevel(notified'.id, notified'.parent))
       /\ (messaged' # messaged /\ messaged'.valid) =>
            messaged'.svcs \subseteq
                Downstream(LiveEdges, FirstLevel(messaged'.id, messaged'.parent))]_vars

\* C26: for a message on node.<id>.msg the gateway of a service that was found is
\* used iff the service is a twilio service and the message has a phone number, or
\* it is an smtp service and the message has an email address.
C26_GatewayIffChannel ==
    messaged.valid =>
        \A v \in messaged.svcs :
            messaged.sent[v] >= 1 <=>
                \/ SvcService(v) = PointValueTwilio /\ messaged.phone # ""
                \/ SvcService(v) = PointValueSMTP /\ messaged.email # ""

\* Every live rule below the root node.
RootRules ==
    {x \in Downstream(LiveEdges, {RootID}) : x \in nodes /\ NodeTypeOf(x) = "rule"}
\* A sweep has gone through its childNodes and no edge has changed since it began.
Swept == sched.complete /\ sched.tree = <<edges, edgePts>>

\* C27: schedule sweep coverage. A sweep that went through its childNodes over an
\* unchanged tree has handed every live rule node below the root node to the
\* rule engine with a trigger point.
C27_SweepCoversRootRules == Swept => RootRules \subseteq sched.swept

\* C28: once Stop was called Start returns at last, and after it has returned no
\* sweep begins.
C28_StopEndsSweeper ==
    /\ sched.stop ~> sched.pc = "stopped"
    /\ [][sched.pc = "stopped" => sched'.pc = "stopped" /\ sched'.swept = sched.swept]_vars

\* C28 witness: Start has returned while the timer holds a tick no sweep took.
C28_Witness ==
    /\ sched.stop
    /\ sched.pc = "stopped"
    /\ sched.timer = "fired"
    /\ sched.complete

\* C29: the updates have a lock of their own. No step of StartUpdate or of the
\* goroutine of an update touches the lock of the points handlers, no step of a
\* points handler touches the lock of the updates; and neither waits for the
\* other: a handler can take its lock whenever that lock is free, whoever holds
\* the lock of the updates, and the other way round.
C29_SeparateLocks ==
    /\ [][/\ upd' # upd => lock' = lock /\ pc' = pc
          /\ (lock' # lock \/ pc' # pc) => upd' = upd]_vars
    /\ [](\A h \in Handlers : (pc[h] = "idle" /\ lock = "") => ENABLED Lock(h))
    /\ [](\A u \in Updaters : (upd.pc[u] = "idle" /\ upd.lock = "") => ENABLED UpdLock(u))

\* C29 witness: a points handler is inside its lock while a caller of StartUpdate
\* is inside the lock of the updates, with an update of the other device under
\* way.
C29_Witness ==
    /\ lock = "np"
    /\ pc["np"] = "done"
    /\ upd.lock = "s1"
    /\ upd.pc["s1"] = "locked"
    /\ upd.updates = {"b"}

\* C30: a failure on the way up is not reported. Whenever handleNodePoints has
\* written the points of a message and something fails in processPointsUpstream
\* (a Db read, the evaluation of a rule, the dispatch of an action, a sink write),
\* the Db holds what the write left (the points stay applied) and what is
\* published on the reply subject is the empty acknowledgement alone.
C30_UpstreamFailureNotReported ==
    [][(Handled("np") /\ cur'.upErr # ErrNil) =>
          LET w == DbNodePoints(nodes, points, cur'.node, cur'.upPoints, FALSE)
          IN /\ nodes' = w.nodes
             /\ points' = w.points
             /\ edges' = edges
             /\ edgePts' = edgePts
             /\ out' = reply(cur'.reply, ErrNil)]_vars

\* C30 witness: a value written to "a" has been handled, the read of the rule
\* nodes failed on the way up, the value is in the Db and the requester got the
\* empty acknowledgement.
C30_Witness ==
    /\ pc["np"] = "done"
    /\ cur.node = "a"
    /\ cur.result = "ok"
    /\ cur.upErr = ErrUpDb
    /\ cur.reply # ""
    /\ out = <<"">>
    /\ "a" \in nodes
    /\ points["a"][PointTypeValue].time = 1

C32_NoLostWakeup ==
    /\ [](\A w \in Waiters :
            /\ startup.res[w] = "nil" => startup.subs = Len(Subjects) /\ startup.started
            /\ startup.res[w] = "timeout" => startup.ctx[w]
            /\ (startup.started /\ startup.wpc[w] = "select") => w \in startup.closed)
    /\ \A w \in Waiters :
          (startup.subs = Len(Subjects) /\ startup.wpc[w] # "idle")
              ~> (startup.wpc[w] = "done")

\* C32 witness: one caller came before Start was done, waited at its select and
\* was woken through its channel; the other came after and got nil at once; no
\* context has ended.
C32_Witness ==
    /\ startup.pc = "loop"
    /\ startup.wait = {"w1"}
    /\ startup.closed = {"w1"}
    /\ startup.res = [w \in Waiters |-> "nil"]
    /\ startup.ctx = [w \in Waiters |-> FALSE]

\* C33: rule evaluation is atomic per rule. handleNodePoints never evaluates a
\* rule that processRuleNode has read for the sweep and not yet processed; and
\* the sweep runs the actions of a rule only when its evaluation changes the
\* stored activation of the rule, so that one activation runs them once.
C33_RuleEvaluationAtomic ==
    [][/\ \A r \in RuleIDs : Evaluated(r) => r \notin sched.eval
       /\ \A r \in sched.eval :
             (sched'.eval = {} /\ rules'.fired # {})
                 => rules'.active[r] # rules.active[r]]_vars

\* C34: no deadlock on the write lock. A handler that has taken nodeUpdateLock
\* returns and releases it, whatever it has published meanwhile, and every edge
\* point the store has sent to itself is handled at last.
C34_NoDeadlock ==
    /\ \A h \in Handlers : (pc[h] # "idle") ~> (pc[h] = "idle")
    /\ \A m \in RepairMsgs : (m \in bus) ~> (m \notin bus)

\* C34 witness: handleEdgePoints has handled the repair point that
\* handleNodePoints sent for the device without parent edge, after
\* handleNodePoints had returned, and no message is queued.
C34_Witness ==
    /\ pc["ep"] = "done"
    /\ pc["np"] = "idle"
    /\ cur.repair
    /\ cur.node = "a"
    /\ <<"none", "a">> \in edges
    /\ bus = {}

\* C35: at most one update is under way per device. StartUpdate for a device
\* that is in the updates map returns an error and changes nothing; it returns
\* nil only for a device that was not in the map and now is; when sending the
\* running state fails the device is not left in the map; the goroutine of an
\* update takes the device out of the map when the transfer has ended; the map
\* holds the devices with such a goroutine and no others; and for a device that
\* is not in the map StartUpdate can return nil.
C35_OneUpdatePerDevice ==
    /\ [][\A u \in Updaters :
            (upd.pc[u] = "locked" /\ upd'.pc[u] = "done") =>
                /\ upd.id[u] \in upd.updates =>
                       /\ upd'.res[u] = "busy"
                       /\ upd'.updates = upd.updates
                       /\ upd'.job = upd.job
                       /\ upd'.state = upd.state
                /\ upd'.res[u] = "ok" =>
                       upd.id[u] \notin upd.updates /\ upd.id[u] \in upd'.updates
                /\ upd'.res[u] = "error" =>
                       upd.id[u] \notin upd'.updates /\ upd'.job = upd.job]_vars
    /\ [][\A d \in UpdateIDs :
            (upd.job[d] = "locked" /\ upd'.job[d] = "none") => d \notin upd'.updates]_vars
    /\ [](upd.updates = {d \in UpdateIDs : upd.job[d] # "none"})
    /\ [](\A u \in Updaters :
            (upd.pc[u] = "locked" /\ upd.id[u] \notin upd.updates)
                => ENABLED (StartUpdate(u) /\ upd'.res[u] = "ok"))

\* C35 witness: the update of device "a" that the first caller started has ended,
\* and a second call for "a" has returned nil, while a call for "a" in between
\* would have been refused.
C35_Witness ==
    /\ upd.pc["s1"] = "idle"
    /\ upd.res["s1"] = "ok"
    /\ upd.id["s1"] = "a"
    /\ upd.pc["s2"] = "done"
    /\ upd.res["s2"] = "ok"
    /\ upd.id["s2"] = "a"
    /\ upd.updates = {"a"}

\* C36: no handler records a cycle time on a metric that is not created. In every
\* reachable state no points handler has returned, and run its deferred AddSample,
\* before Start had created the cycle metrics.
C36_NoSampleBeforeMetrics == startup.nilSample = {}

\* What the walks collect at the nodes of S: the users and the message services
\* that are live children of a node of S.
UsersUnder(S) == {u \in UserIDs : \E n \in S : <<n, u>> \in LiveEdges}
ServicesUnder(S) == {v \in ServiceIDs : \E n \in S : <<n, v>> \in LiveEdges}
\* The way up: handleNodePoints has run processPointsUpstream for every node the
\* parent edges of the written node, deleted ones included, lead to, and has
\* evaluated the live rule children of all of them.
UpstreamThroughDeleted ==
    (pc["np"] = "done" /\ cur.result = "ok") =>
        /\ \A n \in Ancestors({cur.node}, TRUE) : upstream[n] >= 1
        /\ cur.ruleNodes = RulesUnder(Ancestors({cur.node}, TRUE))
\* The walk of a notification: the users under the node and under what its live
\* parent edges lead to.
NotificationThroughLive ==
    (notified' # notified /\ notified'.walked) =>
        notified'.found = UsersUnder(Ancestors({notified'.id}, FALSE))

\* C37 as stated: upstream propagation recurses through every parent edge, deleted
\* ones included, so that points written to a node are still evaluated by the
\* rules of a parent whose edge to the node is deleted; the walk of a
\* notification and the walk of a message follow live parent edges only.
C37_OnlyUpstreamThroughDeleted ==
    /\ []UpstreamThroughDeleted
    /\ [][NotificationThroughLive]_vars
    /\ [][(messaged' # messaged /\ messaged'.valid) =>
            messaged'.svcs = ServicesUnder(Ancestors({messaged'.id}, FALSE))]_vars

\* C37 amended: the same, but the walk of a message goes from the user to the
\* ParentID of the message, whatever the state of that edge, and follows live
\* parent edges from there on.
C37_UpstreamThroughDeleted ==
    /\ []UpstreamThroughDeleted
    /\ [][NotificationThroughLive]_vars
    /\ [][(messaged' # messaged /\ messaged'.valid) =>
            messaged'.svcs = ServicesUnder(FirstLevel(messaged'.id, messaged'.parent))]_vars

\* C37 witness: "a" is deleted from the root node and the group is deleted from
\* the root node; the value written to "a" was evaluated by the rule of the root
\* node, while the notification on "a" found u1 in the group and not u2 under the
\* root node, and the message for u1, itself deleted from the group, found the
\* smtp service of the group and not the twilio service.
C37_Witness ==
    /\ pc["np"] = "done"
    /\ cur.result = "ok"
    /\ cur.node = "a"
    /\ IsTombstone(edgePts, <<RootID, "a">>)
    /\ IsTombstone(edgePts, <<RootID, "b">>)
    /\ upstream[RootID] >= 1
    /\ cur.ruleNodes = {"rule1"}
    /\ notified.walked
    /\ notified.found = {"u1"}
    /\ IsTombstone(edgePts, <<"b", "u1">>)
    /\ messaged.valid
    /\ messaged.svcs = {"sm"}

\* The feIDs of the node views of tree i of the page.
FeIDs(i) == page.nodes[i].feID .. (page.nodes[i].feID + page.nodes[i].size - 1)

\* C38: front-end IDs are unique. After a node list response no two node views
\* of the page have the same feID, whatever the number and the size of the trees
\* (the indexes of one tree differ, so it is two trees that must not meet), so
\* that a toggle addressed by feID inverts exactly one node view and an edit
\* addressed by feID marks at most one.
C38_FeIDUnique ==
    /\ [](\A i, k \in DOMAIN page.nodes : i # k => FeIDs(i) \cap FeIDs(k) = {})
    /\ [](Cardinality(mergeNodesEdit(page.nodes, page.nodeEdit)) <= 1)
    /\ [][page'.expDetail # page.expDetail /\ page'.nodes = page.nodes =>
            Cardinality((page'.expDetail \ page.expDetail)
                        \cup (page.expDetail \ page'.expDetail)) = 1]_vars

\* C39: the node message CopyNode sets is dropped by the very next Tick, however
\* long after: in every state reached by a Tick nodeMsg is Nothing (and CopyNode
\* stamps the message with the time of the Tick before it).
C39_TickClearsNodeMsg ==
    /\ [][page'.now # page.now => page'.nodeMsg = Nothing]_vars
    /\ [](\A msg \in page.nodeMsg : msg.time = page.now)

\* C39 witness: a node was copied after the first Tick, and a later Tick, more
\* than NodeMsgMs after that one, has dropped the message.
C39_Witness ==
    /\ page.copyMove = "Copy"
    /\ page.nodeMsg = Nothing
    /\ page.now > TickMs + NodeMsgMs
====
